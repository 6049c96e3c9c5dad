--------------------------- MODULE SignalsProofs ---------------------------
(***************************************************************************)
(* Proofs about Signals.  The handlers a task runs are a stack of frames;  *)
(* the invariant follows the mask and the trap context of every level of   *)
(* that stack, so that it survives both exec_signal_handlers, which pushes *)
(* a level, and sys_sigreturn, which goes back to the one below.           *)
(***************************************************************************)
EXTENDS Signals, SequenceTheorems, WellFoundedInduction, TLAPS

\* A task control block.
TCB == [mode : {"none", "user", "syscall", "interrupt", "dead"},
        pending_signals : SUBSET Signals, sigmask : SUBSET Signals,
        cx : Context, frames : Seq(Frame), itimer : Itimer \cup {NoTimer}]

\* The mask and the context of level i of a stack: what frame i saved, and above the
\* last frame what is in force.
MaskAt(frames, mask, i) == IF i <= Len(frames) THEN frames[i].mask ELSE mask
CxAt(frames, cx, i) == IF i <= Len(frames) THEN frames[i].context ELSE cx

\* The context of a system call that has no result yet.
Waiting(cx) == cx.at = "ecall" /\ cx.a0 = "own"

\* Level i runs the handler of frame i - 1, the lowest one the main program.
Levels(frames, cx) ==
  \A i \in 1 .. (Len(frames) + 1) :
    CxAt(frames, cx, i).sig = IF i = 1 THEN 0 ELSE frames[i - 1].sig

\* What the masks of the levels hold of the signals that cannot be blocked.
Unblockable(frames, mask, bs) ==
  \A i \in 1 .. (Len(frames) + 1) :
    /\ MaskAt(frames, mask, i) \cap {SIGKILL, SIGSTOP} = {}
    /\ \A s \in MaskAt(frames, mask, i) \cap Critical :
         s \in bs \/ \E j \in 1 .. (i - 1) : frames[j].sig = s

\* A handler was open when it was entered, and its signal is closed in every level
\* above it unless it was opened.
Closed(frames, mask, op) ==
  /\ \A i \in 1 .. Len(frames) :
       frames[i].sig \notin frames[i].mask /\ frames[i].sig \notin {SIGKILL, SIGSTOP}
  /\ \A i, k \in 1 .. (Len(frames) + 1) :
       i < k => frames[i].sig \in op \/ frames[i].sig \in MaskAt(frames, mask, k)

\* The context of a system call that waits is in one of the first n frames, and the
\* handlers above it have not run.
Waited(frames, n) ==
  \E i \in 1 .. n : /\ Waiting(frames[i].context)
                     /\ \A j \in (i + 1) .. n : frames[j].context.at = "entry"

\* A level at the start of its handler has the signal number in a0, unless a system
\* call below it waited when the handler was entered.
Arguments(frames, cx) ==
  \A k \in 1 .. (Len(frames) + 1) :
    CxAt(frames, cx, k).at = "entry" /\ CxAt(frames, cx, k).a0 # "signum" =>
      Waited(frames, k - 1)

\* The stack of a task with the given frames, context and mask.
Stack(frames, cx, mask, bs, op) ==
  /\ Levels(frames, cx)
  /\ MaskAt(frames, mask, 1) = bs
  /\ Unblockable(frames, mask, bs)
  /\ Closed(frames, mask, op)
  /\ Arguments(frames, cx)

\* A task that waits in a system call has the context of that call on its stack, with
\* nothing above it but handlers that have not run.
CallOnStack(frames, cx) ==
  Waiting(cx) \/ (cx.at = "entry" /\ Waited(frames, Len(frames)))

\* The inductive invariant.
TaskInv(b, bs, op) ==
  /\ Stack(b.frames, b.cx, b.sigmask, bs, op)
  /\ b.mode = "syscall" => CallOnStack(b.frames, b.cx)

IInv ==
  /\ TypeOK
  /\ sigactions \in [Tasks -> Installable]
  /\ \A t \in Tasks : TaskInv(tcb[t], base[t], opened[t])
-----------------------------------------------------------------------------
(* Lemmas about the operators of the model. *)

\* exec_signal_handlers takes one of the signals it may take.
LEMMA LowestIn ==
  ASSUME NEW S \in SUBSET Nat, S # {}
  PROVE  Lowest(S) \in S
<1> DEFINE R == {ss \in Nat \X Nat : ss[1] < ss[2]}
<1>1. IsWellFoundedOn(R, Nat)
  BY NatLessThanWellFounded DEF OpToRel
<1>2. PICK x \in S : \A y \in S : ~ (<<y, x>> \in R)
  <2> HIDE DEF R
  <2> QED
    BY <1>1, WFMin
<1>3. ASSUME NEW y \in S
      PROVE  x <= y
  <2>1. <<y, x>> \in Nat \X Nat /\ <<y, x>>[1] = y /\ <<y, x>>[2] = x
    OBVIOUS
  <2>2. ~ (y < x)
    BY <1>2, <2>1
  <2> QED
    BY <2>2
<1> QED
  BY <1>3 DEF Lowest

\* Writing a frame and going to the handler keeps what is known of the stack.
LEMMA Push ==
  ASSUME NEW frames \in Seq(Frame), NEW cx \in Context, NEW mask \in SUBSET Signals,
         NEW bs, NEW op, NEW op2, NEW s \in Signals, NEW act \in SigAction,
         Stack(frames, cx, mask, bs, op), s \notin mask, s \notin {SIGKILL, SIGSTOP},
         act.sa_mask \cap Critical = {},
         frames = <<>> \/ op \subseteq op2, act.nodefer => s \in op2
  PROVE  Stack(Append(frames, [sig |-> s, context |-> cx, mask |-> mask]), Entry(s),
               mask \cup act.sa_mask \cup (IF act.nodefer THEN {} ELSE {s}), bs, op2)
<1> DEFINE f == [sig |-> s, context |-> cx, mask |-> mask]
           frames2 == Append(frames, f)
           mask2 == mask \cup act.sa_mask \cup (IF act.nodefer THEN {} ELSE {s})
           n == Len(frames)
<1>1. f \in Frame
  BY DEF Frame
<1>2. /\ n \in Nat /\ Len(frames2) = n + 1 /\ frames2[n + 1] = f
      /\ \A i \in 1 .. n : frames2[i] = frames[i]
  BY <1>1
<1>a. f.sig = s /\ f.context = cx /\ f.mask = mask
  OBVIOUS
<1>b. /\ mask \subseteq mask2 /\ (s \in mask2 \/ s \in op2)
      /\ \A c \in mask2 \cap Critical : c \in mask \/ c = s
  OBVIOUS
<1>c. frames = <<>> => n = 0
  OBVIOUS
<1> HIDE DEF n, f, frames2, mask2
<1>3. \A i \in 1 .. (n + 1) : /\ MaskAt(frames2, mask2, i) = MaskAt(frames, mask, i)
                              /\ CxAt(frames2, Entry(s), i) = CxAt(frames, cx, i)
  BY <1>2, <1>a DEF MaskAt, CxAt, n
<1>4. MaskAt(frames2, mask2, n + 2) = mask2 /\ CxAt(frames2, Entry(s), n + 2) = Entry(s)
  BY <1>2 DEF MaskAt, CxAt
<1>5. Levels(frames2, Entry(s))
  <2> SUFFICES ASSUME NEW i \in 1 .. (n + 2)
               PROVE  CxAt(frames2, Entry(s), i).sig = IF i = 1 THEN 0 ELSE frames2[i - 1].sig
    BY <1>2 DEF Levels
  <2>1. CASE i = n + 2
    BY <2>1, <1>2, <1>4, <1>a DEF Entry
  <2>2. CASE i \in 1 .. (n + 1)
    <3>1. CxAt(frames, cx, i).sig = IF i = 1 THEN 0 ELSE frames[i - 1].sig
      BY <2>2 DEF Stack, Levels, n
    <3>2. i # 1 => i - 1 \in 1 .. n
      BY <2>2, <1>2
    <3> QED
      BY <3>1, <3>2, <2>2, <1>2, <1>3
  <2> QED
    BY <2>1, <2>2, <1>2
<1>6. MaskAt(frames2, mask2, 1) = bs
  BY <1>2, <1>3 DEF Stack
<1>7. Unblockable(frames2, mask2, bs)
  <2> SUFFICES ASSUME NEW i \in 1 .. (n + 2)
               PROVE  /\ MaskAt(frames2, mask2, i) \cap {SIGKILL, SIGSTOP} = {}
                      /\ \A c \in MaskAt(frames2, mask2, i) \cap Critical :
                           c \in bs \/ \E j \in 1 .. (i - 1) : frames2[j].sig = c
    BY <1>2 DEF Unblockable
  <2>1. \A k \in 1 .. (n + 1) :
          /\ MaskAt(frames, mask, k) \cap {SIGKILL, SIGSTOP} = {}
          /\ \A c \in MaskAt(frames, mask, k) \cap Critical :
               c \in bs \/ \E j \in 1 .. (k - 1) : frames[j].sig = c
    BY <1>2, <1>a DEF Stack, Unblockable, n
  <2>2. CASE i \in 1 .. (n + 1)
    <3>1. \A j \in 1 .. (i - 1) : frames2[j] = frames[j]
      BY <2>2, <1>2
    <3> QED
      BY <2>1, <2>2, <3>1, <1>3
  <2>3. CASE i = n + 2
    <3>1. MaskAt(frames, mask, n + 1) = mask
      BY <1>2, <1>a DEF MaskAt, n
    <3>2. mask \cap {SIGKILL, SIGSTOP} = {}
      BY <2>1, <3>1, <1>2
    <3>3. mask2 \cap {SIGKILL, SIGSTOP} = {}
      BY <3>2, <1>b DEF Critical
    <3>4. ASSUME NEW c \in mask2 \cap Critical
          PROVE  c \in bs \/ \E j \in 1 .. (n + 1) : frames2[j].sig = c
      <4>1. c \in mask \/ c = s
        BY <1>b
      <4>2. c \in mask => c \in bs \/ \E j \in 1 .. n : frames[j].sig = c
        BY <2>1, <3>1, <1>2
      <4>3. frames2[n + 1].sig = s
        BY <1>2, <1>a
      <4> QED
        BY <4>1, <4>2, <4>3, <1>2
    <3> QED
      BY <2>3, <3>3, <3>4, <1>4, <1>2
  <2> QED
    BY <2>2, <2>3, <1>2
<1>8. Closed(frames2, mask2, op2)
  <2>1. \A i \in 1 .. (n + 1) :
          frames2[i].sig \notin frames2[i].mask /\ frames2[i].sig \notin {SIGKILL, SIGSTOP}
    BY <1>2, <1>a DEF Stack, Closed, n
  <2>2. ASSUME NEW i \in 1 .. (n + 2), NEW k \in 1 .. (n + 2), i < k
        PROVE  frames2[i].sig \in op2 \/ frames2[i].sig \in MaskAt(frames2, mask2, k)
    <3>1. \A h, j \in 1 .. (n + 1) :
             h < j => frames[h].sig \in op2 \/ frames[h].sig \in MaskAt(frames, mask, j)
      <4>1. CASE frames = <<>>
        BY <4>1, <1>2, <1>c
      <4>2. CASE op \subseteq op2
        BY <4>2 DEF Stack, Closed, n
      <4> QED
        BY <4>1, <4>2
    <3>2. CASE k \in 1 .. (n + 1)
      BY <3>1, <3>2, <2>2, <1>2, <1>3
    <3>3. CASE k = n + 2 /\ i \in 1 .. n
      <4>1. frames[i].sig \in op2 \/ frames[i].sig \in MaskAt(frames, mask, n + 1)
        BY <3>1, <3>3, <1>2
      <4> QED
        BY <4>1, <3>3, <1>2, <1>4, <1>b DEF MaskAt, n
    <3>4. CASE k = n + 2 /\ i = n + 1
      BY <3>4, <1>2, <1>4, <1>a, <1>b
    <3> QED
      BY <3>2, <3>3, <3>4, <2>2, <1>2
  <2> QED
    BY <2>1, <2>2, <1>2 DEF Closed
<1>9. Arguments(frames2, Entry(s))
  <2> SUFFICES ASSUME NEW k \in 1 .. (n + 2), CxAt(frames2, Entry(s), k).at = "entry",
                      CxAt(frames2, Entry(s), k).a0 # "signum"
               PROVE  Waited(frames2, k - 1)
    BY <1>2 DEF Arguments
  <2>1. k \in 1 .. (n + 1)
    BY <1>2, <1>4 DEF Entry
  <2>2. Waited(frames, k - 1)
    BY <2>1, <1>3 DEF Stack, Arguments, n
  <2> QED
    BY <2>1, <2>2, <1>2 DEF Waited
<1> QED
  BY <1>5, <1>6, <1>7, <1>8, <1>9 DEF Stack, n, f, frames2, mask2

\* Going back to the context and the mask of the last frame does, too.
LEMMA Pop ==
  ASSUME NEW frames \in Seq(Frame), NEW cx, NEW mask, NEW bs, NEW op, NEW op2,
         Stack(frames, cx, mask, bs, op), frames # <<>>,
         op2 = op \/ Len(frames) = 1
  PROVE  Stack(SubSeq(frames, 1, Len(frames) - 1), frames[Len(frames)].context,
               frames[Len(frames)].mask, bs, op2)
<1> DEFINE n == Len(frames) - 1
           f == frames[Len(frames)]
           frames2 == SubSeq(frames, 1, n)
<1>1. /\ n \in Nat /\ Len(frames) = n + 1 /\ Len(frames2) = n
      /\ \A i \in 1 .. n : frames2[i] = frames[i]
  <2>1. Len(frames) \in Nat \ {0} /\ \A i \in 1 .. n : frames[i] \in Frame
    BY EmptySeq
  <2>2. n \in Nat /\ 1 \in Int /\ n \in Int
    BY <2>1
  <2>3. Len(frames2) = n /\ \A i \in 1 .. n : frames2[i] = frames[i]
    <3> HIDE DEF n
    <3>1. /\ Len(frames2) = IF 1 <= n THEN n - 1 + 1 ELSE 0
          /\ \A i \in 1 .. (n - 1 + 1) : frames2[i] = frames[1 + i - 1]
      BY <2>1, <2>2, SubSeqProperties
    <3> QED
      BY <3>1, <2>2
  <2> QED
    BY <2>1, <2>2, <2>3
<1>2. \A i \in 1 .. (n + 1) : /\ MaskAt(frames2, f.mask, i) = MaskAt(frames, mask, i)
                              /\ CxAt(frames2, f.context, i) = CxAt(frames, cx, i)
  BY <1>1 DEF MaskAt, CxAt
<1> HIDE DEF n, f, frames2
<1>3. Levels(frames2, f.context)
  BY <1>1, <1>2 DEF Stack, Levels
<1>4. MaskAt(frames2, f.mask, 1) = bs
  BY <1>1, <1>2 DEF Stack
<1>5. Unblockable(frames2, f.mask, bs)
  BY <1>1, <1>2 DEF Stack, Unblockable
<1>6. Closed(frames2, f.mask, op2)
  BY <1>1, <1>2 DEF Stack, Closed
<1>7. Arguments(frames2, f.context)
  BY <1>1, <1>2 DEF Stack, Arguments, Waited
<1> QED
  BY <1>3, <1>4, <1>5, <1>6, <1>7 DEF Stack, n, f, frames2

\* The context in force may become any that runs the same handler, unless it claims to
\* stand at its start.
LEMMA ChangeCx ==
  ASSUME NEW frames \in Seq(Frame), NEW cx, NEW cx2, NEW mask, NEW bs, NEW op,
         Stack(frames, cx, mask, bs, op), cx2.sig = cx.sig,
         cx2.at # "entry" \/ Waited(frames, Len(frames))
  PROVE  Stack(frames, cx2, mask, bs, op)
<1> DEFINE n == Len(frames)
<1>1. n \in Nat
  OBVIOUS
<1>2. /\ \A i \in 1 .. n : CxAt(frames, cx2, i) = CxAt(frames, cx, i)
      /\ CxAt(frames, cx2, n + 1) = cx2 /\ CxAt(frames, cx, n + 1) = cx
  BY <1>1 DEF CxAt
<1>3. Levels(frames, cx2)
  BY <1>1, <1>2 DEF Stack, Levels
<1>4. Arguments(frames, cx2)
  <2> SUFFICES ASSUME NEW k \in 1 .. (n + 1), CxAt(frames, cx2, k).at = "entry",
                      CxAt(frames, cx2, k).a0 # "signum"
               PROVE  Waited(frames, k - 1)
    BY DEF Arguments
  <2>1. CASE k \in 1 .. n
    BY <2>1, <1>2 DEF Stack, Arguments
  <2>2. CASE k = n + 1
    BY <2>2, <1>1, <1>2
  <2> QED
    BY <2>1, <2>2, <1>1
<1> QED
  BY <1>3, <1>4 DEF Stack

\* The mask in force may become any that sys_sigprocmask makes of it: inside a handler
\* what it takes out is opened, outside the mask is the one the program asked for.
LEMMA ChangeMask ==
  ASSUME NEW frames \in Seq(Frame), NEW cx, NEW mask, NEW mask2, NEW bs, NEW op,
         Stack(frames, cx, mask, bs, op), mask2 \cap Critical \subseteq mask
  PROVE  Stack(frames, cx, mask2, IF frames = <<>> THEN mask2 ELSE bs, op \cup (mask \ mask2))
<1> DEFINE n == Len(frames)
           bs2 == IF frames = <<>> THEN mask2 ELSE bs
           op2 == op \cup (mask \ mask2)
<1>1. n \in Nat /\ (frames = <<>> <=> n = 0)
  OBVIOUS
<1>2. /\ \A i \in 1 .. n : MaskAt(frames, mask2, i) = MaskAt(frames, mask, i)
      /\ MaskAt(frames, mask2, n + 1) = mask2 /\ MaskAt(frames, mask, n + 1) = mask
  BY <1>1 DEF MaskAt
<1>3. MaskAt(frames, mask2, 1) = bs2
  BY <1>1, <1>2 DEF Stack
<1>4. Unblockable(frames, mask2, bs2)
  <2>1. \A i \in 1 .. (n + 1) :
          /\ MaskAt(frames, mask, i) \cap {SIGKILL, SIGSTOP} = {}
          /\ \A c \in MaskAt(frames, mask, i) \cap Critical :
               c \in bs \/ \E j \in 1 .. (i - 1) : frames[j].sig = c
    BY DEF Stack, Unblockable
  <2>2. mask2 \cap {SIGKILL, SIGSTOP} = {}
    BY <2>1, <1>1, <1>2 DEF Critical
  <2>3. ASSUME NEW i \in 1 .. (n + 1)
        PROVE  /\ MaskAt(frames, mask2, i) \cap {SIGKILL, SIGSTOP} = {}
               /\ \A c \in MaskAt(frames, mask2, i) \cap Critical :
                    c \in bs2 \/ \E j \in 1 .. (i - 1) : frames[j].sig = c
    <3>1. CASE n = 0
      BY <3>1, <2>2, <1>1, <1>2
    <3>2. CASE n # 0 /\ i \in 1 .. n
      BY <3>2, <2>1, <1>1, <1>2
    <3>3. CASE n # 0 /\ i = n + 1
      BY <3>3, <2>1, <2>2, <1>1, <1>2
    <3> QED
      BY <3>1, <3>2, <3>3, <1>1
  <2> QED
    BY <2>3 DEF Unblockable
<1>5. Closed(frames, mask2, op2)
  <2>1. ASSUME NEW i \in 1 .. (n + 1), NEW k \in 1 .. (n + 1), i < k
        PROVE  frames[i].sig \in op2 \/ frames[i].sig \in MaskAt(frames, mask2, k)
    <3>1. frames[i].sig \in op \/ frames[i].sig \in MaskAt(frames, mask, k)
      BY <2>1 DEF Stack, Closed
    <3>2. CASE k \in 1 .. n
      BY <3>1, <3>2, <1>2
    <3>3. CASE k = n + 1
      BY <3>1, <3>3, <1>2
    <3> QED
      BY <3>2, <3>3, <1>1
  <2> QED
    BY <2>1 DEF Stack, Closed
<1> QED
  BY <1>3, <1>4, <1>5 DEF Stack

\* The stack of a program that runs no handler.
LEMMA EmptyStack ==
  ASSUME NEW cx, NEW mask, NEW op, cx.sig = 0, cx.at # "entry",
         mask \cap {SIGKILL, SIGSTOP} = {}
  PROVE  Stack(<<>>, cx, mask, mask, op)
<1> DEFINE fs == <<>>
<1>1. Len(fs) = 0
  OBVIOUS
<1>2. MaskAt(fs, mask, 1) = mask /\ CxAt(fs, cx, 1) = cx
  BY <1>1 DEF MaskAt, CxAt
<1> HIDE DEF fs
<1>3. Levels(fs, cx) /\ Arguments(fs, cx)
  BY <1>1, <1>2 DEF Levels, Arguments
<1>4. Unblockable(fs, mask, mask) /\ Closed(fs, mask, op)
  BY <1>1, <1>2 DEF Unblockable, Closed
<1> QED
  BY <1>2, <1>3, <1>4 DEF Stack, fs

\* No level blocks SIGKILL or SIGSTOP, the one in force least of all.
LEMMA MaskInForce ==
  ASSUME NEW frames \in Seq(Frame), NEW cx, NEW mask, NEW bs, NEW op,
         Stack(frames, cx, mask, bs, op)
  PROVE  mask \cap {SIGKILL, SIGSTOP} = {}
<1>1. Len(frames) \in Nat /\ MaskAt(frames, mask, Len(frames) + 1) = mask
  BY DEF MaskAt
<1> QED
  BY <1>1 DEF Stack, Unblockable

\* What a table that sigaction made says of an action.
LEMMA InstallableActs ==
  ASSUME NEW acts \in Installable, NEW s \in Signals
  PROVE  /\ acts[s] \in SigAction /\ acts[s].sa_mask \cap Critical = {}
         /\ s \in {SIGKILL, SIGSTOP} => acts[s] = Default
<1>1. acts \in [Signals -> SigAction]
  BY DEF Installable
<1>2. acts[s].sa_mask \cap Critical = {}
  BY DEF Installable
<1>3. s \in {SIGKILL, SIGSTOP} => acts[s] = Default
  BY DEF Installable
<1> QED
  BY <1>1, <1>2, <1>3

\* check_interval_timer touches the timer and the pending signals.
LEMMA TimerKeeps ==
  ASSUME NEW b \in TCB
  PROVE  LET c == check_interval_timer(b) IN
         /\ c \in TCB /\ c.mode = b.mode
         /\ c.sigmask = b.sigmask /\ c.cx = b.cx /\ c.frames = b.frames
<1>1. CASE b.itimer = NoTimer \/ b.itimer.age <= b.itimer.it_value
  BY <1>1 DEF check_interval_timer
<1>2. CASE ~ (b.itimer = NoTimer \/ b.itimer.age <= b.itimer.it_value)
  <2>1. b.itimer \in Itimer
    BY <1>2 DEF TCB
  <2> DEFINE it == IF b.itimer.it_interval = 0 THEN NoTimer
                   ELSE [b.itimer EXCEPT !.it_value = b.itimer.it_interval]
             ps == b.pending_signals \cup {SIGALRM}
  <2>2. it \in Itimer \cup {NoTimer}
    BY <2>1 DEF Itimer
  <2>3. ps \in SUBSET Signals
    BY SignalsAssumption DEF TCB
  <2>4. check_interval_timer(b) = [b EXCEPT !.pending_signals = ps, !.itimer = it]
    BY <1>2 DEF check_interval_timer
  <2> HIDE DEF it, ps
  <2> QED
    BY <2>2, <2>3, <2>4 DEF TCB
<1> QED
  BY <1>1, <1>2

\* exec_signal_handlers keeps what is known of the stack, with the signals that it
\* opened; the task goes on in its mode or ends.
LEMMA LookKeeps ==
  ASSUME NEW b \in TCB, NEW acts \in Installable, NEW bs, NEW op,
         Stack(b.frames, b.cx, b.sigmask, bs, op)
  PROVE  LET c == exec_signal_handlers(b, acts) IN
         /\ c \in TCB /\ c.mode \in {b.mode, "dead"}
         /\ Stack(c.frames, c.cx, c.sigmask, bs, Opened(op, b, c, acts))
         /\ CallOnStack(b.frames, b.cx) => CallOnStack(c.frames, c.cx)
<1> DEFINE ready == b.pending_signals \ b.sigmask
           caught == {s \in ready : acts[s].sa_handler # "SIG_IGN"}
           d == exec_signal_handlers(b, acts)
<1>1. ready \in SUBSET Signals /\ caught \in SUBSET ready /\ Signals \subseteq Nat
  BY SignalsAssumption DEF TCB
<1>a. ASSUME NEW c \in TCB, c.frames = b.frames, c.cx = b.cx, c.sigmask = b.sigmask
      PROVE  /\ Stack(c.frames, c.cx, c.sigmask, bs, Opened(op, b, c, acts))
             /\ CallOnStack(b.frames, b.cx) => CallOnStack(c.frames, c.cx)
  <2>1. CASE b.frames = <<>>
    <3>1. Len(b.frames) = 0
      BY <2>1
    <3> QED
      BY <1>a, <3>1 DEF Stack, Closed
  <2>2. CASE b.frames # <<>>
    <3>1. op \subseteq Opened(op, b, c, acts)
      BY <2>2 DEF Opened
    <3> QED
      BY <1>a, <3>1 DEF Stack, Closed
  <2> QED
    BY <2>1, <2>2
<1>2. CASE caught = {}
  <2>1. d = [b EXCEPT !.pending_signals = @ \ ready]
    BY <1>2 DEF exec_signal_handlers
  <2> HIDE DEF d, ready, caught
  <2>2. d \in TCB /\ d.mode = b.mode /\ d.frames = b.frames /\ d.cx = b.cx /\ d.sigmask = b.sigmask
    BY <2>1 DEF TCB
  <2> QED
    BY <2>2, <1>a DEF d
<1>3. CASE caught # {}
  <2> DEFINE s == Lowest(caught)
             c == [b EXCEPT !.pending_signals = @ \ {r \in ready : r <= s}]
  <2>1. s \in caught /\ s \in Signals /\ s \in b.pending_signals /\ s \notin b.sigmask
    BY <1>1, <1>3, LowestIn
  <2>2. d = IF acts[s].sa_handler = "function" THEN ToHandler(c, s, acts[s])
            ELSE IF s \in {SIGKILL, SIGSEGV} THEN [c EXCEPT !.mode = "dead"] ELSE c
    BY <1>3 DEF exec_signal_handlers
  <2> HIDE DEF d, s, ready, caught
  <2>3. c \in TCB /\ c.mode = b.mode /\ c.frames = b.frames /\ c.cx = b.cx /\ c.sigmask = b.sigmask
    BY DEF TCB
  <2> HIDE DEF c
  <2>4. CASE acts[s].sa_handler = "function"
    <3> DEFINE act == acts[s]
               f == [sig |-> s, context |-> b.cx, mask |-> b.sigmask]
               mask == b.sigmask \cup act.sa_mask \cup (IF act.nodefer THEN {} ELSE {s})
    <3>1. act \in SigAction /\ act.sa_mask \cap Critical = {} /\ s \notin {SIGKILL, SIGSTOP}
      <4> HIDE DEF act
      <4>1. act \in SigAction /\ act.sa_mask \cap Critical = {}
        BY <2>1, InstallableActs DEF act
      <4>2. s \in {SIGKILL, SIGSTOP} => act = Default
        BY <2>1, InstallableActs DEF act
      <4>3. act # Default
        BY <2>4 DEF Default, act
      <4> QED
        BY <4>1, <4>2, <4>3
    <3>2. d = [c EXCEPT !.sigmask = mask, !.frames = Append(b.frames, f), !.cx = Entry(s)]
      BY <2>2, <2>3, <2>4 DEF ToHandler, HandlerMask
    <3>3. /\ mask \in SUBSET Signals /\ f \in Frame /\ Entry(s) \in Context
          /\ b.frames \in Seq(Frame) /\ b.cx \in Context /\ b.sigmask \in SUBSET Signals
      BY <2>1, <3>1 DEF Frame, TCB, SigAction, Entry, Context
    <3>4. Append(b.frames, f) \in Seq(Frame) /\ Append(b.frames, f) # b.frames
      <4>1. Len(b.frames) \in Nat /\ Len(Append(b.frames, f)) = Len(b.frames) + 1
        BY <3>3
      <4> QED
        BY <3>3, <4>1
    <3> HIDE DEF mask, f, act
    <3>5. /\ d \in TCB /\ d.mode = b.mode /\ d.sigmask = mask
          /\ d.frames = Append(b.frames, f) /\ d.cx = Entry(s)
      BY <2>3, <3>2, <3>3, <3>4 DEF TCB
    <3>6. /\ b.frames = <<>> \/ op \subseteq Opened(op, b, d, acts)
          /\ act.nodefer => s \in Opened(op, b, d, acts)
      BY <3>4, <3>5, <2>1 DEF Opened, Entry, act
    <3>7. Stack(d.frames, d.cx, d.sigmask, bs, Opened(op, b, d, acts))
      BY <3>1, <3>3, <3>5, <3>6, <2>1, Push DEF mask, f
    <3>8. CallOnStack(b.frames, b.cx) => CallOnStack(d.frames, d.cx)
      <4>1. /\ Len(b.frames) \in Nat /\ Len(d.frames) = Len(b.frames) + 1
            /\ \A i \in 1 .. Len(b.frames) : d.frames[i] = b.frames[i]
            /\ d.frames[Len(b.frames) + 1] = f
        BY <3>3, <3>5
      <4>2. f.context = b.cx
        BY DEF f
      <4>3. ASSUME Waiting(b.cx)
            PROVE  Waited(d.frames, Len(b.frames) + 1)
        <5>1. Waiting(d.frames[Len(b.frames) + 1].context)
          BY <4>1, <4>2, <4>3
        <5> QED
          BY <4>1, <5>1 DEF Waited
      <4>4. ASSUME b.cx.at = "entry", Waited(b.frames, Len(b.frames))
            PROVE  Waited(d.frames, Len(b.frames) + 1)
        <5>1. PICK i \in 1 .. Len(b.frames) :
                /\ Waiting(b.frames[i].context)
                /\ \A j \in (i + 1) .. Len(b.frames) : b.frames[j].context.at = "entry"
          BY <4>4 DEF Waited
        <5>2. i \in 1 .. (Len(b.frames) + 1) /\ Waiting(d.frames[i].context)
          BY <4>1, <5>1
        <5>3. ASSUME NEW j \in (i + 1) .. (Len(b.frames) + 1)
              PROVE  d.frames[j].context.at = "entry"
          <6>1. CASE j = Len(b.frames) + 1
            BY <4>1, <4>2, <4>4, <6>1
          <6>2. CASE j # Len(b.frames) + 1
            <7>1. j \in (i + 1) .. Len(b.frames) /\ j \in 1 .. Len(b.frames)
              BY <4>1, <6>2
            <7> QED
              BY <4>1, <5>1, <7>1
          <6> QED
            BY <6>1, <6>2
        <5> QED
          BY <5>2, <5>3 DEF Waited
      <4> QED
        BY <4>1, <4>3, <4>4, <3>5 DEF CallOnStack, Entry
    <3> QED
      BY <3>5, <3>7, <3>8 DEF d
  <2>5. CASE acts[s].sa_handler # "function"
    <3>1. /\ d \in TCB /\ d.mode \in {b.mode, "dead"} /\ d.frames = b.frames
          /\ d.cx = b.cx /\ d.sigmask = b.sigmask
      BY <2>2, <2>3, <2>5 DEF TCB
    <3> QED
      BY <3>1, <1>a DEF d
  <2> QED
    BY <2>4, <2>5
<1> QED
  BY <1>2, <1>3
-----------------------------------------------------------------------------
(* Every action keeps the invariant. *)

\* What the invariant says of one task and its table.
LEMMA TaskFacts ==
  ASSUME IInv, NEW t \in Tasks
  PROVE  /\ tcb[t] \in TCB /\ Acts(t) \in Installable /\ table[t] \in Tasks
         /\ base[t] \in SUBSET Signals /\ opened[t] \in SUBSET Signals
         /\ Stack(tcb[t].frames, tcb[t].cx, tcb[t].sigmask, base[t], opened[t])
         /\ tcb[t].mode = "syscall" => CallOnStack(tcb[t].frames, tcb[t].cx)
  BY DEF IInv, TypeOK, TCB, Acts, TaskInv

\* A step in which one task comes to a state that is as it should be.
LEMMA StepKeeps ==
  ASSUME IInv, NEW t \in Tasks, NEW b \in TCB, NEW op \in SUBSET Signals,
         Becomes(t, b, op), TaskInv(b, base'[t], op),
         base' \in [Tasks -> SUBSET Signals], \A u \in Tasks \ {t} : base'[u] = base[u],
         sigactions' \in [Tasks -> Installable], table' = table, calls' \in 0 .. MaxCalls
  PROVE  IInv'
<1>1. tcb \in [Tasks -> TCB] /\ opened \in [Tasks -> SUBSET Signals] /\ table \in [Tasks -> Tasks]
  BY DEF IInv, TypeOK, TCB
<1>2. /\ tcb' \in [Tasks -> TCB] /\ opened' \in [Tasks -> SUBSET Signals]
      /\ tcb'[t] = b /\ opened'[t] = op
      /\ \A u \in Tasks \ {t} : tcb'[u] = tcb[u] /\ opened'[u] = opened[u]
  BY <1>1 DEF Becomes
<1>3. Installable \subseteq [Signals -> SigAction]
  BY DEF Installable
<1>4. TypeOK'
  BY <1>1, <1>2, <1>3 DEF TypeOK, TCB
<1>5. ASSUME NEW u \in Tasks
      PROVE  TaskInv(tcb'[u], base'[u], opened'[u])
  <2>1. CASE u = t
    BY <2>1, <1>2
  <2>2. CASE u # t
    <3>1. TaskInv(tcb[u], base[u], opened[u])
      BY DEF IInv
    <3> QED
      BY <2>2, <3>1, <1>2
  <2> QED
    BY <2>1, <2>2
<1> QED
  BY <1>4, <1>5 DEF IInv

\* Looking at the signals opens none but signals.
LEMMA OpenedType ==
  ASSUME NEW op \in SUBSET Signals, NEW b, NEW c, NEW acts
  PROVE  Opened(op, b, c, acts) \in SUBSET Signals
  BY DEF Opened

\* The way back to user mode, from a state b whose stack is as it should be.
LEMMA LeaveKeeps ==
  ASSUME IInv, NEW t \in Tasks, NEW b \in TCB, NEW acts \in Installable, Leave(t, b, acts),
         Stack(b.frames, b.cx, b.sigmask, base'[t], opened[t] \cup (tcb[t].sigmask \ b.sigmask)),
         base' \in [Tasks -> SUBSET Signals], \A u \in Tasks \ {t} : base'[u] = base[u],
         sigactions' \in [Tasks -> Installable], table' = table, calls' \in 0 .. MaxCalls
  PROVE  IInv'
<1> DEFINE a == [b EXCEPT !.mode = "user"]
           c == check_interval_timer(a)
           d == exec_signal_handlers(c, acts)
           op == opened[t] \cup (tcb[t].sigmask \ b.sigmask)
<1>1. /\ a \in TCB /\ a.mode = "user"
      /\ a.frames = b.frames /\ a.cx = b.cx /\ a.sigmask = b.sigmask
  BY DEF TCB
<1>2. Becomes(t, d, Opened(op, c, d, acts))
  BY DEF Leave
<1> HIDE DEF a
<1>3. /\ c \in TCB /\ c.mode = "user"
      /\ c.frames = b.frames /\ c.cx = b.cx /\ c.sigmask = b.sigmask
  BY <1>1, TimerKeeps
<1>4. op \in SUBSET Signals
  BY TaskFacts DEF TCB
<1>5. Stack(c.frames, c.cx, c.sigmask, base'[t], op)
  BY <1>3
<1> HIDE DEF c, op
<1>6. /\ d \in TCB /\ d.mode \in {"user", "dead"}
      /\ Stack(d.frames, d.cx, d.sigmask, base'[t], Opened(op, c, d, acts))
  BY <1>3, <1>5, LookKeeps
<1>7. TaskInv(d, base'[t], Opened(op, c, d, acts))
  BY <1>6 DEF TaskInv
<1>8. Opened(op, c, d, acts) \in SUBSET Signals
  BY <1>4, OpenedType
<1> HIDE DEF d
<1> QED
  BY <1>2, <1>6, <1>7, <1>8, StepKeeps

\* The end of a system call that puts its result into a0.
LEMMA ReturnKeeps ==
  ASSUME IInv, NEW t \in Tasks, NEW b \in TCB, NEW acts \in Installable, Return(t, b, acts),
         Stack(b.frames, b.cx, b.sigmask, base'[t], opened[t] \cup (tcb[t].sigmask \ b.sigmask)),
         base' \in [Tasks -> SUBSET Signals], \A u \in Tasks \ {t} : base'[u] = base[u],
         sigactions' \in [Tasks -> Installable], table' = table, calls' \in 0 .. MaxCalls
  PROVE  IInv'
<1> DEFINE cx == [Called(b.cx) EXCEPT !.a0 = "result"]
           c == [b EXCEPT !.cx = cx]
<1>1. cx \in Context /\ cx.sig = b.cx.sig /\ cx.at = "ecall"
  BY DEF TCB, Context, Called
<1>2. Leave(t, c, acts)
  BY DEF Return
<1> HIDE DEF cx
<1>3. c \in TCB /\ c.frames = b.frames /\ c.cx = cx /\ c.sigmask = b.sigmask
  BY <1>1 DEF TCB
<1>4. b.frames \in Seq(Frame)
  BY DEF TCB
<1> HIDE DEF c
<1>5. Stack(c.frames, c.cx, c.sigmask, base'[t], opened[t] \cup (tcb[t].sigmask \ c.sigmask))
  BY <1>1, <1>3, <1>4, ChangeCx
<1> QED
  BY <1>2, <1>3, <1>5, LeaveKeeps

\* A suspension, in a state b whose stack is as it should be.
LEMMA SuspendKeeps ==
  ASSUME IInv, NEW t \in Tasks, NEW b \in TCB, NEW mode \in {"syscall", "interrupt"},
         Suspend(t, b, mode), Stack(b.frames, b.cx, b.sigmask, base[t], opened[t]),
         mode = "syscall" => CallOnStack(b.frames, b.cx),
         UNCHANGED <<sigactions, table, calls, base>>
  PROVE  IInv'
<1> DEFINE c == exec_signal_handlers(b, Acts(t))
           d == IF c.mode = "dead" THEN c ELSE [c EXCEPT !.mode = mode]
           op == Opened(opened[t], b, c, Acts(t))
<1>1. Becomes(t, d, op)
  BY DEF Suspend
<1>2. Acts(t) \in Installable /\ opened[t] \in SUBSET Signals
  BY TaskFacts
<1>3. /\ c \in TCB /\ Stack(c.frames, c.cx, c.sigmask, base[t], op)
      /\ CallOnStack(b.frames, b.cx) => CallOnStack(c.frames, c.cx)
  BY <1>2, LookKeeps
<1>4. op \in SUBSET Signals
  BY <1>2, OpenedType
<1> HIDE DEF c, op
<1>5. /\ d \in TCB /\ d.mode \in {"dead", mode}
      /\ d.frames = c.frames /\ d.cx = c.cx /\ d.sigmask = c.sigmask
  BY <1>3 DEF TCB
<1> HIDE DEF d
<1>6. TaskInv(d, base[t], op)
  BY <1>3, <1>5 DEF TaskInv
<1>7. /\ base' = base /\ base \in [Tasks -> SUBSET Signals] /\ table' = table
      /\ sigactions' \in [Tasks -> Installable] /\ calls' \in 0 .. MaxCalls
  BY DEF IInv, TypeOK
<1> QED
  BY <1>1, <1>4, <1>5, <1>6, <1>7, StepKeeps

\* The parts of the state that an action leaves alone, and the count of calls.
LEMMA FrameFacts ==
  ASSUME IInv
  PROVE  /\ Call => calls' \in 0 .. MaxCalls
         /\ UNCHANGED calls => calls' \in 0 .. MaxCalls
         /\ UNCHANGED base => base' \in [Tasks -> SUBSET Signals]
         /\ UNCHANGED sigactions => sigactions' \in [Tasks -> Installable]
<1>1. calls \in 0 .. MaxCalls /\ MaxCalls \in Nat
  BY SignalsAssumption DEF IInv, TypeOK
<1>2. Call => calls' \in 0 .. MaxCalls
  BY <1>1 DEF Call
<1> QED
  BY <1>1, <1>2 DEF IInv, TypeOK

\* A step that leaves the stacks and the masks of all tasks alone.
LEMMA StacksKept ==
  ASSUME IInv, tcb' \in [Tasks -> TCB], UNCHANGED <<sigactions, table, base, opened>>,
         calls' \in 0 .. MaxCalls,
         \A t \in Tasks : /\ tcb'[t].frames = tcb[t].frames /\ tcb'[t].cx = tcb[t].cx
                          /\ tcb'[t].sigmask = tcb[t].sigmask /\ tcb'[t].mode = tcb[t].mode
  PROVE  IInv'
<1>1. TypeOK'
  BY DEF IInv, TypeOK, TCB
<1>2. \A t \in Tasks : TaskInv(tcb'[t], base'[t], opened'[t])
  BY DEF IInv, TaskInv
<1> QED
  BY <1>1, <1>2 DEF IInv

\* sys_kill keeps the invariant: it adds a pending signal.
LEMMA KillKeeps ==
  ASSUME IInv, NEW t \in Tasks, NEW s \in Signals, Kill(t, s)
  PROVE  IInv'
<1>1. tcb \in [Tasks -> TCB] /\ calls' \in 0 .. MaxCalls
  BY FrameFacts DEF IInv, TypeOK, TCB, Kill
<1>2. tcb' = [tcb EXCEPT ![t] = [tcb[t] EXCEPT !.pending_signals = @ \cup {s}]]
  BY DEF Kill
<1> DEFINE b == [tcb[t] EXCEPT !.pending_signals = @ \cup {s}]
<1>3. /\ b \in TCB /\ b.frames = tcb[t].frames /\ b.cx = tcb[t].cx
      /\ b.sigmask = tcb[t].sigmask /\ b.mode = tcb[t].mode
  BY <1>1 DEF TCB
<1> HIDE DEF b
<1>4. tcb' = [tcb EXCEPT ![t] = b]
  BY <1>2 DEF b
<1>5. tcb' \in [Tasks -> TCB]
  BY <1>1, <1>3, <1>4
<1>6. \A u \in Tasks : tcb'[u] = IF u = t THEN b ELSE tcb[u]
  BY <1>1, <1>4
<1> QED
  BY <1>1, <1>3, <1>5, <1>6, StacksKept DEF Kill

\* The passing of time keeps the invariant: it changes the ages of timers.
LEMMA TickKeeps ==
  ASSUME IInv, Tick
  PROVE  IInv'
<1>1. tcb \in [Tasks -> TCB] /\ calls' \in 0 .. MaxCalls
  BY FrameFacts DEF IInv, TypeOK, TCB, Tick
<1>2. ASSUME NEW t \in Tasks
      PROVE  /\ tcb'[t] \in TCB /\ tcb'[t].frames = tcb[t].frames /\ tcb'[t].cx = tcb[t].cx
             /\ tcb'[t].sigmask = tcb[t].sigmask /\ tcb'[t].mode = tcb[t].mode
  <2>1. tcb[t] \in TCB
    BY <1>1
  <2>2. CASE tcb[t].itimer = NoTimer \/ tcb[t].itimer.age = MaxAge
    <3>1. tcb'[t] = tcb[t]
      BY <2>2 DEF Tick
    <3> QED
      BY <2>1, <3>1
  <2>3. CASE ~ (tcb[t].itimer = NoTimer \/ tcb[t].itimer.age = MaxAge)
    <3> DEFINE it == [tcb[t].itimer EXCEPT !.age = @ + 1]
    <3>1. tcb[t].itimer \in Itimer
      BY <2>1, <2>3 DEF TCB
    <3>2. it \in Itimer
      BY <3>1, <2>3, SignalsAssumption DEF Itimer
    <3>3. tcb'[t] = [tcb[t] EXCEPT !.itimer = it]
      BY <2>3 DEF Tick
    <3> HIDE DEF it
    <3> QED
      BY <2>1, <3>2, <3>3 DEF TCB
  <2> QED
    BY <2>2, <2>3
<1>3. tcb' = [t \in Tasks |-> tcb'[t]]
  BY DEF Tick
<1>4. tcb' \in [Tasks -> TCB]
  BY <1>2, <1>3
<1> QED
  BY <1>1, <1>2, <1>4, StacksKept DEF Tick

\* sys_sigaction keeps the invariant: what it installs is without the critical signals.
LEMMA SigactionKeeps ==
  ASSUME IInv, NEW t \in Tasks, NEW s \in Signals, NEW act \in SigAction, Sigaction(t, s, act)
  PROVE  IInv'
<1> DEFINE sa == [act EXCEPT !.sa_mask = Settable(@)]
           acts == IF s \in {SIGKILL, SIGSTOP} THEN Acts(t) ELSE [Acts(t) EXCEPT ![s] = sa]
<1>1. sa \in SigAction /\ sa.sa_mask \cap Critical = {}
  BY DEF SigAction, Settable
<1>2. Acts(t) \in Installable
  BY TaskFacts
<1>3. acts \in Installable
  <2> HIDE DEF sa
  <2>1. Acts(t) \in [Signals -> SigAction]
    BY <1>2 DEF Installable
  <2>2. acts \in [Signals -> SigAction]
    BY <2>1, <1>1
  <2>3. \A r \in Signals : acts[r] = Acts(t)[r] \/ (acts[r] = sa /\ r \notin {SIGKILL, SIGSTOP})
    BY <2>1
  <2> HIDE DEF acts
  <2>4. \A r \in Signals : /\ acts[r].sa_mask \cap Critical = {}
                           /\ r \in {SIGKILL, SIGSTOP} => acts[r] = Default
    BY <2>3, <1>1, <1>2, InstallableActs
  <2> QED
    BY <2>2, <2>4 DEF Installable
<1>4. /\ Return(t, tcb[t], acts) /\ sigactions' = [sigactions EXCEPT ![table[t]] = acts]
      /\ Call /\ UNCHANGED <<table, base>>
  BY DEF Sigaction
<1> HIDE DEF acts
<1>5. sigactions' \in [Tasks -> Installable]
  BY <1>3, <1>4, TaskFacts DEF IInv
<1>6. /\ tcb[t] \in TCB /\ opened[t] \cup (tcb[t].sigmask \ tcb[t].sigmask) = opened[t]
      /\ Stack(tcb[t].frames, tcb[t].cx, tcb[t].sigmask, base[t], opened[t])
  BY TaskFacts
<1> QED
  BY <1>3, <1>4, <1>5, <1>6, FrameFacts, ReturnKeeps

\* sys_sigprocmask keeps the invariant, inside a handler and outside.
LEMMA SigprocmaskKeeps ==
  ASSUME IInv, NEW t \in Tasks, NEW how \in {"SIG_BLOCK", "SIG_UNBLOCK", "SIG_SETMASK"},
         NEW set \in SUBSET Signals, Sigprocmask(t, how, set)
  PROVE  IInv'
<1> DEFINE mask == NewMask(how, tcb[t].sigmask, Settable(set))
           b == [tcb[t] EXCEPT !.sigmask = mask]
<1>1. /\ tcb[t] \in TCB /\ Acts(t) \in Installable
      /\ Stack(tcb[t].frames, tcb[t].cx, tcb[t].sigmask, base[t], opened[t])
      /\ base \in [Tasks -> SUBSET Signals]
  BY TaskFacts DEF IInv, TypeOK
<1>2. mask \in SUBSET Signals /\ mask \cap Critical \subseteq tcb[t].sigmask
  BY <1>1 DEF NewMask, Settable, TCB
<1>3. /\ Return(t, b, Acts(t)) /\ Call /\ UNCHANGED <<sigactions, table>>
      /\ base' = IF tcb[t].frames = <<>> THEN [base EXCEPT ![t] = mask] ELSE base
  BY DEF Sigprocmask
<1> HIDE DEF mask
<1>4. /\ b \in TCB /\ b.sigmask = mask /\ b.frames = tcb[t].frames /\ b.cx = tcb[t].cx
      /\ b.frames \in Seq(Frame)
  BY <1>1, <1>2 DEF TCB
<1>5. /\ base' \in [Tasks -> SUBSET Signals] /\ \A u \in Tasks \ {t} : base'[u] = base[u]
      /\ base'[t] = IF tcb[t].frames = <<>> THEN mask ELSE base[t]
  BY <1>1, <1>2, <1>3
<1> HIDE DEF b
<1>6. Stack(b.frames, b.cx, mask, base'[t], opened[t] \cup (tcb[t].sigmask \ mask))
  BY <1>1, <1>2, <1>4, <1>5, ChangeMask
<1> QED
  BY <1>1, <1>3, <1>4, <1>5, <1>6, FrameFacts, ReturnKeeps

\* sys_setitimer keeps the invariant.
LEMMA SetitimerKeeps ==
  ASSUME IInv, NEW t \in Tasks, NEW p \in Timers, Setitimer(t, p[1], p[2])
  PROVE  IInv'
<1> DEFINE it == IF p[1] = 0 /\ p[2] = 0 THEN NoTimer
                 ELSE [it_value |-> p[1], it_interval |-> p[2], age |-> 0]
           b == [tcb[t] EXCEPT !.itimer = it]
<1>1. p[1] \in 0 .. (MaxAge - 1) /\ p[2] \in 0 .. (MaxAge - 1) /\ 0 \in 0 .. MaxAge
  BY SignalsAssumption
<1>2. it \in Itimer \cup {NoTimer}
  BY <1>1 DEF Itimer
<1>3. Return(t, b, Acts(t)) /\ Call /\ UNCHANGED <<sigactions, table, base>>
  BY DEF Setitimer
<1> HIDE DEF it
<1>4. /\ tcb[t] \in TCB /\ Acts(t) \in Installable
      /\ Stack(tcb[t].frames, tcb[t].cx, tcb[t].sigmask, base[t], opened[t])
  BY TaskFacts
<1>5. b \in TCB /\ b.frames = tcb[t].frames /\ b.cx = tcb[t].cx /\ b.sigmask = tcb[t].sigmask
  BY <1>2, <1>4 DEF TCB
<1> HIDE DEF b
<1>6. opened[t] \cup (tcb[t].sigmask \ b.sigmask) = opened[t]
  BY <1>5
<1> QED
  BY <1>3, <1>4, <1>5, <1>6, FrameFacts, ReturnKeeps

\* A fault keeps the invariant: it adds a pending signal and looks at it.
LEMMA FaultKeeps ==
  ASSUME IInv, NEW t \in Tasks, NEW s \in Signals, Fault(t, s)
  PROVE  IInv'
<1> DEFINE b == [tcb[t] EXCEPT !.pending_signals = @ \cup {s}]
<1>1. Leave(t, b, Acts(t)) /\ Call /\ UNCHANGED <<sigactions, table, base>>
  BY DEF Fault
<1>2. /\ tcb[t] \in TCB /\ Acts(t) \in Installable
      /\ Stack(tcb[t].frames, tcb[t].cx, tcb[t].sigmask, base[t], opened[t])
  BY TaskFacts
<1>3. b \in TCB /\ b.frames = tcb[t].frames /\ b.cx = tcb[t].cx /\ b.sigmask = tcb[t].sigmask
  BY <1>2 DEF TCB
<1> HIDE DEF b
<1>4. opened[t] \cup (tcb[t].sigmask \ b.sigmask) = opened[t]
  BY <1>3
<1> QED
  BY <1>1, <1>2, <1>3, <1>4, FrameFacts, LeaveKeeps

\* sys_sigreturn keeps the invariant: the level below is as it was left.
LEMMA SigreturnKeeps ==
  ASSUME IInv, NEW t \in Tasks, Sigreturn(t)
  PROVE  IInv'
<1> DEFINE b == tcb[t]
           f == b.frames[Len(b.frames)]
           a == [b EXCEPT !.cx = f.context, !.sigmask = f.mask,
                          !.frames = SubSeq(@, 1, Len(@) - 1)]
           c == check_interval_timer(a)
           op == Opened(opened[t], c, c, Acts(t))
<1>1. /\ b \in TCB /\ b.frames \in Seq(Frame) /\ opened[t] \in SUBSET Signals
      /\ Stack(b.frames, b.cx, b.sigmask, base[t], opened[t])
  BY TaskFacts DEF TCB
<1>2. /\ Becomes(t, c, op) /\ b.mode = "user" /\ b.cx.sig # 0
      /\ UNCHANGED <<sigactions, table, calls, base>>
  BY DEF Sigreturn, InUser
<1> HIDE DEF b
<1>3. b.frames # <<>>
  <2> SUFFICES ASSUME b.frames = <<>>
               PROVE  FALSE
    OBVIOUS
  <2>1. Len(b.frames) = 0
    OBVIOUS
  <2>2. CxAt(b.frames, b.cx, 1).sig = 0
    BY <2>1, <1>1 DEF Stack, Levels
  <2> QED
    BY <2>1, <2>2, <1>2 DEF CxAt
<1>4. Len(b.frames) \in Nat \ {0} /\ f \in Frame
  BY <1>1, <1>3
<1> DEFINE frames2 == SubSeq(b.frames, 1, Len(b.frames) - 1)
<1>5. frames2 \in Seq(Frame) /\ Len(frames2) = Len(b.frames) - 1
  BY <1>1, <1>4
<1> HIDE DEF f, frames2
<1>6. /\ a \in TCB /\ a.mode = "user" /\ a.frames = frames2
      /\ a.cx = f.context /\ a.sigmask = f.mask
  BY <1>1, <1>2, <1>4, <1>5 DEF TCB, Frame, frames2
<1> HIDE DEF a
<1>7. /\ c \in TCB /\ c.mode = "user" /\ c.frames = frames2
      /\ c.cx = f.context /\ c.sigmask = f.mask
  BY <1>6, TimerKeeps
<1> HIDE DEF c
<1>8. op = opened[t] \/ Len(b.frames) = 1
  <2>1. CASE frames2 = <<>>
    BY <2>1, <1>4, <1>5
  <2>2. CASE frames2 # <<>>
    BY <2>2, <1>7 DEF Opened
  <2> QED
    BY <2>1, <2>2
<1>9. op \in SUBSET Signals
  BY <1>1, OpenedType
<1> HIDE DEF op
<1>10. Stack(c.frames, c.cx, c.sigmask, base[t], op)
  BY <1>1, <1>3, <1>7, <1>8, Pop DEF frames2, f
<1>11. TaskInv(c, base[t], op)
  BY <1>7, <1>10 DEF TaskInv
<1> QED
  BY <1>2, <1>7, <1>9, <1>11, FrameFacts, StepKeeps

\* exec keeps the invariant: the new program runs no handler.
LEMMA ExecKeeps ==
  ASSUME IInv, NEW t \in Tasks, Exec(t)
  PROVE  IInv'
<1> DEFINE cx == [Called(Main) EXCEPT !.a0 = "result"]
           fs == <<>>
           b == [tcb[t] EXCEPT !.cx = cx, !.frames = fs]
<1>1. /\ tcb[t] \in TCB /\ Acts(t) \in Installable /\ tcb[t].frames \in Seq(Frame)
      /\ Stack(tcb[t].frames, tcb[t].cx, tcb[t].sigmask, base[t], opened[t])
      /\ tcb[t].sigmask \in SUBSET Signals /\ base \in [Tasks -> SUBSET Signals]
  BY TaskFacts DEF TCB, IInv, TypeOK
<1>2. /\ Leave(t, b, Acts(t)) /\ Call /\ UNCHANGED <<sigactions, table>>
      /\ base' = [base EXCEPT ![t] = tcb[t].sigmask]
  BY DEF Exec
<1>3. cx \in Context /\ cx.sig = 0 /\ cx.at = "ecall"
  BY DEF Context, Called, Main
<1>4. tcb[t].sigmask \cap {SIGKILL, SIGSTOP} = {}
  BY <1>1, MaskInForce
<1>a. fs \in Seq(Frame)
  OBVIOUS
<1> HIDE DEF cx, fs
<1>5. b \in TCB /\ b.frames = fs /\ b.cx = cx /\ b.sigmask = tcb[t].sigmask
  BY <1>1, <1>3, <1>a DEF TCB
<1> HIDE DEF b
<1>6. /\ base' \in [Tasks -> SUBSET Signals] /\ base'[t] = tcb[t].sigmask
      /\ \A u \in Tasks \ {t} : base'[u] = base[u]
  BY <1>1, <1>2
<1>7. Stack(b.frames, b.cx, b.sigmask, base'[t], opened[t] \cup (tcb[t].sigmask \ b.sigmask))
  BY <1>3, <1>4, <1>5, <1>6, EmptyStack DEF fs
<1> QED
  BY <1>1, <1>2, <1>5, <1>6, <1>7, FrameFacts, LeaveKeeps

\* sys_exit keeps the invariant.
LEMMA ExitKeeps ==
  ASSUME IInv, NEW t \in Tasks, Exit(t)
  PROVE  IInv'
<1> DEFINE b == [tcb[t] EXCEPT !.mode = "dead", !.cx = Called(@)]
<1>1. /\ tcb[t] \in TCB /\ tcb[t].frames \in Seq(Frame) /\ opened[t] \in SUBSET Signals
      /\ Stack(tcb[t].frames, tcb[t].cx, tcb[t].sigmask, base[t], opened[t])
      /\ tcb \in [Tasks -> TCB] /\ opened \in [Tasks -> SUBSET Signals]
  BY TaskFacts DEF TCB, IInv, TypeOK
<1>2. /\ tcb' = [tcb EXCEPT ![t] = b]
      /\ UNCHANGED <<sigactions, table, calls, base, opened>>
  BY DEF Exit
<1>3. /\ Called(tcb[t].cx) \in Context /\ Called(tcb[t].cx).sig = tcb[t].cx.sig
      /\ Called(tcb[t].cx).at = "ecall"
  BY <1>1 DEF Called, Context, TCB
<1>4. /\ b \in TCB /\ b.mode = "dead" /\ b.frames = tcb[t].frames
      /\ b.cx = Called(tcb[t].cx) /\ b.sigmask = tcb[t].sigmask
  BY <1>1, <1>3 DEF TCB
<1> HIDE DEF b
<1>5. Becomes(t, b, opened[t])
  BY <1>1, <1>2 DEF Becomes
<1>6. TaskInv(b, base[t], opened[t])
  BY <1>1, <1>3, <1>4, ChangeCx DEF TaskInv
<1> QED
  BY <1>1, <1>2, <1>4, <1>5, <1>6, FrameFacts, StepKeeps

\* A system call that begins to wait keeps the invariant: its context has no result.
LEMMA WaitKeeps ==
  ASSUME IInv, NEW t \in Tasks, Wait(t)
  PROVE  IInv'
<1> DEFINE b == [tcb[t] EXCEPT !.cx = Called(@)]
<1>1. /\ tcb[t] \in TCB /\ tcb[t].frames \in Seq(Frame)
      /\ Stack(tcb[t].frames, tcb[t].cx, tcb[t].sigmask, base[t], opened[t])
  BY TaskFacts DEF TCB
<1>2. Suspend(t, b, "syscall") /\ UNCHANGED <<sigactions, table, calls, base>>
  BY DEF Wait
<1>3. /\ Called(tcb[t].cx) \in Context /\ Called(tcb[t].cx).sig = tcb[t].cx.sig
      /\ Called(tcb[t].cx).at = "ecall" /\ Called(tcb[t].cx).a0 = "own"
  BY <1>1 DEF Called, Context, TCB
<1>4. /\ b \in TCB /\ b.frames = tcb[t].frames
      /\ b.cx = Called(tcb[t].cx) /\ b.sigmask = tcb[t].sigmask
  BY <1>1, <1>3 DEF TCB
<1> HIDE DEF b
<1>5. Stack(b.frames, b.cx, b.sigmask, base[t], opened[t])
  BY <1>1, <1>3, <1>4, ChangeCx
<1>6. CallOnStack(b.frames, b.cx)
  BY <1>3, <1>4 DEF CallOnStack, Waiting
<1> QED
  BY <1>2, <1>4, <1>5, <1>6, SuspendKeeps

\* A system call that goes on waiting keeps the invariant.
LEMMA WaitAgainKeeps ==
  ASSUME IInv, NEW t \in Tasks, WaitAgain(t)
  PROVE  IInv'
<1>1. Suspend(t, tcb[t], "syscall") /\ tcb[t].mode = "syscall" /\ UNCHANGED <<sigactions, table, calls, base>>
  BY DEF WaitAgain
<1> QED
  BY <1>1, TaskFacts, SuspendKeeps

\* The timer interrupt keeps the invariant.
LEMMA InterruptKeeps ==
  ASSUME IInv, NEW t \in Tasks, Interrupt(t)
  PROVE  IInv'
<1>1. Suspend(t, tcb[t], "interrupt") /\ UNCHANGED <<sigactions, table, calls, base>>
  BY DEF Interrupt
<1> QED
  BY <1>1, TaskFacts, SuspendKeeps

\* The way back from the timer interrupt keeps the invariant.
LEMMA ResumeKeeps ==
  ASSUME IInv, NEW t \in Tasks, Resume(t)
  PROVE  IInv'
<1>1. Leave(t, tcb[t], Acts(t)) /\ UNCHANGED <<sigactions, table, calls, base>>
  BY DEF Resume
<1>2. /\ tcb[t] \in TCB /\ Acts(t) \in Installable
      /\ Stack(tcb[t].frames, tcb[t].cx, tcb[t].sigmask, base[t], opened[t])
      /\ opened[t] \cup (tcb[t].sigmask \ tcb[t].sigmask) = opened[t]
  BY TaskFacts
<1> QED
  BY <1>1, <1>2, FrameFacts, LeaveKeeps

\* The end of a wait keeps the invariant: if the result goes into the a0 of a handler
\* that was entered meanwhile, the context of the call is below it.
LEMMA WaitOverKeeps ==
  ASSUME IInv, NEW t \in Tasks, WaitOver(t)
  PROVE  IInv'
<1> DEFINE cx == [tcb[t].cx EXCEPT !.a0 = "result"]
           b == [tcb[t] EXCEPT !.cx = cx]
<1>1. /\ tcb[t] \in TCB /\ tcb[t].frames \in Seq(Frame) /\ Acts(t) \in Installable
      /\ Stack(tcb[t].frames, tcb[t].cx, tcb[t].sigmask, base[t], opened[t])
  BY TaskFacts DEF TCB
<1>2. /\ Leave(t, b, Acts(t)) /\ tcb[t].mode = "syscall"
      /\ UNCHANGED <<sigactions, table, calls, base>>
  BY DEF WaitOver
<1>3. cx \in Context /\ cx.sig = tcb[t].cx.sig /\ cx.at = tcb[t].cx.at
  BY <1>1 DEF Context, TCB
<1> HIDE DEF cx
<1>4. b \in TCB /\ b.frames = tcb[t].frames /\ b.cx = cx /\ b.sigmask = tcb[t].sigmask
  BY <1>1, <1>3 DEF TCB
<1> HIDE DEF b
<1>5. cx.at # "entry" \/ Waited(tcb[t].frames, Len(tcb[t].frames))
  <2>1. CallOnStack(tcb[t].frames, tcb[t].cx)
    BY <1>2, TaskFacts
  <2> QED
    BY <2>1, <1>3 DEF CallOnStack, Waiting
<1>6. Stack(b.frames, b.cx, b.sigmask, base[t], opened[t])
  BY <1>1, <1>3, <1>4, <1>5, ChangeCx
<1>7. opened[t] \cup (tcb[t].sigmask \ b.sigmask) = opened[t]
  BY <1>4
<1> QED
  BY <1>1, <1>2, <1>4, <1>6, <1>7, FrameFacts, LeaveKeeps

\* fork keeps the invariant: a process has a copy of the stack, a thread an empty one
\* under the mask of the task that made it.
LEMMA ForkKeeps ==
  ASSUME IInv, NEW t \in Tasks, NEW u \in Tasks, NEW thread \in BOOLEAN, Fork(t, u, thread)
  PROVE  IInv'
<1> DEFINE cx == [Called(tcb[t].cx) EXCEPT !.a0 = "result"]
           a == [tcb[t] EXCEPT !.cx = cx]
           b == check_interval_timer(a)
           c == exec_signal_handlers(b, Acts(t))
           d == Forked(tcb[t], thread)
           opt == Opened(opened[t], b, c, Acts(t))
           opu == IF thread THEN {} ELSE opened[t]
           bsu == IF thread THEN tcb[t].sigmask ELSE base[t]
<1>1. /\ tcb[t] \in TCB /\ tcb[t].frames \in Seq(Frame) /\ Acts(t) \in Installable
      /\ Stack(tcb[t].frames, tcb[t].cx, tcb[t].sigmask, base[t], opened[t])
      /\ tcb[t].sigmask \in SUBSET Signals
      /\ base[t] \in SUBSET Signals /\ opened[t] \in SUBSET Signals
  BY TaskFacts DEF TCB
<1>2. /\ tcb \in [Tasks -> TCB] /\ opened \in [Tasks -> SUBSET Signals]
      /\ base \in [Tasks -> SUBSET Signals] /\ table \in [Tasks -> Tasks]
      /\ sigactions \in [Tasks -> Installable]
  BY DEF IInv, TypeOK, TCB
<1>3. /\ Call /\ tcb[t].mode = "user" /\ tcb[u].mode = "none"
      /\ tcb' = [tcb EXCEPT ![t] = c, ![u] = d]
      /\ opened' = [opened EXCEPT ![t] = opt, ![u] = opu]
      /\ table' = [table EXCEPT ![u] = IF thread THEN table[t] ELSE u]
      /\ sigactions' = IF thread THEN sigactions ELSE [sigactions EXCEPT ![u] = Acts(t)]
      /\ base' = [base EXCEPT ![u] = bsu]
  BY DEF Fork, InUser
<1>4. t # u
  BY <1>3
<1>5. cx \in Context /\ cx.sig = tcb[t].cx.sig /\ cx.at = "ecall"
  BY <1>1 DEF Context, TCB, Called
<1>6. /\ d \in TCB /\ d.mode = "user" /\ d.sigmask = tcb[t].sigmask
      /\ thread => d.frames = <<>> /\ d.cx = Main
      /\ ~ thread => d.frames = tcb[t].frames /\ d.cx = cx
  <2> DEFINE fs == <<>>
             cx2 == IF thread THEN Main ELSE cx
             fs2 == IF thread THEN fs ELSE tcb[t].frames
  <2>1. Main \in Context
    BY DEF Main, Context
  <2>2. fs \in Seq(Frame)
    OBVIOUS
  <2>3. d = [tcb[t] EXCEPT !.mode = "user", !.pending_signals = {}, !.itimer = NoTimer,
                           !.cx = cx2, !.frames = fs2]
    BY DEF Forked
  <2> HIDE DEF d, fs, cx
  <2>4. cx2 \in Context /\ fs2 \in Seq(Frame)
    BY <2>1, <2>2, <1>1, <1>5
  <2>5. (thread => cx2 = Main /\ fs2 = fs) /\ (~ thread => cx2 = cx /\ fs2 = tcb[t].frames)
    OBVIOUS
  <2> HIDE DEF cx2, fs2
  <2>6. d \in TCB /\ d.mode = "user" /\ d.sigmask = tcb[t].sigmask /\ d.cx = cx2 /\ d.frames = fs2
    BY <2>3, <2>4, <1>1 DEF TCB
  <2> QED
    BY <2>5, <2>6 DEF fs
<1>7. a \in TCB /\ a.mode = "user" /\ a.frames = tcb[t].frames /\ a.cx = cx /\ a.sigmask = tcb[t].sigmask
  <2> HIDE DEF cx
  <2> QED
    BY <1>1, <1>3, <1>5 DEF TCB
<1>8. Stack(tcb[t].frames, cx, tcb[t].sigmask, base[t], opened[t])
  <2> HIDE DEF cx
  <2> QED
    BY <1>1, <1>5, ChangeCx
<1> HIDE DEF a, cx, d
<1>9. b \in TCB /\ b.mode = "user" /\ b.frames = tcb[t].frames /\ b.cx = cx /\ b.sigmask = tcb[t].sigmask
  BY <1>7, TimerKeeps
<1> HIDE DEF b
<1>10. c \in TCB /\ c.mode \in {"user", "dead"} /\ Stack(c.frames, c.cx, c.sigmask, base[t], opt)
  BY <1>1, <1>8, <1>9, LookKeeps
<1>11. TaskInv(c, base[t], opt)
  BY <1>10 DEF TaskInv
<1>12. opt \in SUBSET Signals /\ opu \in SUBSET Signals /\ bsu \in SUBSET Signals
  BY <1>1, OpenedType
<1> HIDE DEF c, opt
<1>13. TaskInv(d, bsu, opu)
  <2>1. CASE thread
    <3>1. tcb[t].sigmask \cap {SIGKILL, SIGSTOP} = {}
      BY <1>1, MaskInForce
    <3>2. Stack(<<>>, Main, tcb[t].sigmask, tcb[t].sigmask, opu)
      BY <3>1, EmptyStack DEF Main
    <3> QED
      BY <2>1, <3>2, <1>6 DEF TaskInv
  <2>2. CASE ~ thread
    BY <2>2, <1>6, <1>8 DEF TaskInv
  <2> QED
    BY <2>1, <2>2
<1> HIDE DEF opu, bsu
<1>14. /\ tcb' \in [Tasks -> TCB] /\ opened' \in [Tasks -> SUBSET Signals]
       /\ base' \in [Tasks -> SUBSET Signals] /\ table' \in [Tasks -> Tasks]
       /\ sigactions' \in [Tasks -> Installable]
  BY <1>1, <1>2, <1>3, <1>6, <1>10, <1>12
<1>15. \A v \in Tasks : /\ tcb'[v] = IF v = u THEN d ELSE IF v = t THEN c ELSE tcb[v]
                        /\ opened'[v] = IF v = u THEN opu ELSE IF v = t THEN opt ELSE opened[v]
                        /\ base'[v] = IF v = u THEN bsu ELSE base[v]
  BY <1>2, <1>3, <1>4
<1>16. \A v \in Tasks : TaskInv(tcb'[v], base'[v], opened'[v])
  BY <1>4, <1>11, <1>13, <1>15 DEF IInv
<1>17. TypeOK'
  <2>1. Installable \subseteq [Signals -> SigAction]
    BY DEF Installable
  <2> QED
    BY <2>1, <1>3, <1>14, FrameFacts DEF TypeOK, TCB
<1> QED
  BY <1>14, <1>16, <1>17 DEF IInv
-----------------------------------------------------------------------------
(* The theorems. *)

\* The invariant holds in the initial states, in which the first process has a table
\* of actions and no handler runs.
LEMMA InitIInv == Init => IInv
<1> SUFFICES ASSUME Init
             PROVE  IInv
  OBVIOUS
<1> DEFINE fs == <<>>
<1>1. \A m \in {"none", "user"} : [Unborn EXCEPT !.mode = m] \in TCB
  <2>1. Main \in Context /\ fs \in Seq(Frame)
    BY DEF Main, Context
  <2>2. Unborn = [mode |-> "none", pending_signals |-> {}, sigmask |-> {}, cx |-> Main,
                  frames |-> fs, itimer |-> NoTimer]
    BY DEF Unborn
  <2> HIDE DEF fs
  <2> QED
    BY <2>1, <2>2 DEF TCB
<1>2. /\ Unborn = [Unborn EXCEPT !.mode = "none"] /\ Unborn.frames = fs
      /\ Unborn.cx = Main /\ Unborn.sigmask = {} /\ Unborn.mode = "none"
  BY DEF Unborn
<1>3. Stack(fs, Main, {}, {}, {})
  BY EmptyStack DEF Main
<1> HIDE DEF fs
<1>4. ASSUME NEW t \in Tasks
      PROVE  /\ tcb[t] \in TCB /\ tcb[t].frames = fs /\ tcb[t].cx = Main
             /\ tcb[t].sigmask = {} /\ tcb[t].mode # "syscall"
  <2>1. tcb[t] = [Unborn EXCEPT !.mode = "user"] \/ tcb[t] = Unborn
    BY DEF Init
  <2>2. /\ [Unborn EXCEPT !.mode = "user"].frames = fs /\ [Unborn EXCEPT !.mode = "user"].cx = Main
        /\ [Unborn EXCEPT !.mode = "user"].sigmask = {} /\ [Unborn EXCEPT !.mode = "user"].mode = "user"
    BY <1>2 DEF Unborn
  <2>3. Unborn \in TCB /\ [Unborn EXCEPT !.mode = "user"] \in TCB
    BY <1>1, <1>2
  <2> QED
    BY <2>1, <2>2, <2>3, <1>2
<1>5. [s \in Signals |-> Default] \in Installable
  <2>1. Default \in SigAction /\ Default.sa_mask \cap Critical = {}
    BY DEF Default, SigAction, Handlers
  <2> QED
    BY <2>1 DEF Installable
<1>6. sigactions \in [Tasks -> Installable]
  BY <1>5, SignalsAssumption DEF Init
<1>7. TypeOK
  <2>1. tcb \in [Tasks -> TCB]
    BY <1>4 DEF Init
  <2>2. Installable \subseteq [Signals -> SigAction]
    BY DEF Installable
  <2>3. /\ table \in [Tasks -> Tasks] /\ calls \in 0 .. MaxCalls
        /\ base \in [Tasks -> SUBSET Signals] /\ opened \in [Tasks -> SUBSET Signals]
    BY SignalsAssumption DEF Init
  <2> QED
    BY <2>1, <2>2, <2>3, <1>6 DEF TypeOK, TCB
<1>8. \A t \in Tasks : TaskInv(tcb[t], base[t], opened[t])
  BY <1>3, <1>4 DEF TaskInv, Init
<1> QED
  BY <1>6, <1>7, <1>8 DEF IInv

\* The invariant is inductive: every action of the tasks, and time, keep it.
LEMMA NextIInv == IInv /\ [Next]_vars => IInv'
<1> SUFFICES ASSUME IInv, [Next]_vars
             PROVE  IInv'
  OBVIOUS
<1>1. CASE UNCHANGED vars
  BY <1>1 DEF vars, IInv, TypeOK
<1>2. CASE Tick
  BY <1>2, TickKeeps
<1>3. ASSUME NEW t \in Tasks, NEW s \in Signals, Kill(t, s)
      PROVE  IInv'
  BY <1>3, KillKeeps
<1>4. ASSUME NEW t \in Tasks, NEW p \in Installs, Sigaction(t, p[1], p[2])
      PROVE  IInv'
  <2>1. p[1] \in Signals /\ p[2] \in SigAction
    BY SignalsAssumption
  <2> QED
    BY <1>4, <2>1, SigactionKeeps
<1>5. ASSUME NEW t \in Tasks, NEW how \in {"SIG_BLOCK", "SIG_UNBLOCK", "SIG_SETMASK"},
             NEW set \in Sets, Sigprocmask(t, how, set)
      PROVE  IInv'
  BY <1>5, SigprocmaskKeeps, SignalsAssumption
<1>6. ASSUME NEW t \in Tasks, NEW p \in Timers, Setitimer(t, p[1], p[2])
      PROVE  IInv'
  BY <1>6, SetitimerKeeps
<1>7. ASSUME NEW t \in Tasks, NEW s \in Signals, Fault(t, s)
      PROVE  IInv'
  BY <1>7, FaultKeeps
<1>8. ASSUME NEW t \in Tasks, NEW u \in Tasks, NEW thread \in BOOLEAN, Fork(t, u, thread)
      PROVE  IInv'
  BY <1>8, ForkKeeps
<1>9. ASSUME NEW t \in Tasks,
             Sigreturn(t) \/ Exec(t) \/ Exit(t) \/ Wait(t) \/ WaitAgain(t) \/ WaitOver(t)
               \/ Interrupt(t) \/ Resume(t)
      PROVE  IInv'
  BY <1>9, SigreturnKeeps, ExecKeeps, ExitKeeps, WaitKeeps, WaitAgainKeeps, WaitOverKeeps,
     InterruptKeeps, ResumeKeeps
<1> QED
  BY <1>1, <1>2, <1>3, <1>4, <1>5, <1>6, <1>7, <1>8, <1>9 DEF Next

\* The invariant holds throughout.
LEMMA Invariant == Spec => []IInv
<1> QED
  BY InitIInv, NextIInv, PTL DEF Spec

\* The state keeps its types, the values of timers included: an interval that goes
\* into it_value when a timer goes off is one that setitimer was given.
THEOREM TypeCorrect == Spec => []TypeOK
<1>1. IInv => TypeOK
  BY DEF IInv
<1> QED
  BY <1>1, Invariant, PTL

\* SIGKILL and SIGSTOP are never in a mask, nor in one that a handler will give back,
\* whatever sigaction, sigprocmask, handlers, sigreturn, fork and exec did.
THEOREM KillIsNeverBlocked == Spec => []KillStaysOpen
<1>1. IInv => KillStaysOpen
  <2> SUFFICES ASSUME IInv, NEW t \in Tasks, NEW mask \in Masks(t)
               PROVE  /\ mask \cap {SIGKILL, SIGSTOP} = {}
                      /\ mask \cap Critical \subseteq
                           base[t] \cup {tcb[t].frames[i].sig : i \in 1 .. Len(tcb[t].frames)}
    BY DEF KillStaysOpen
  <2> DEFINE fs == tcb[t].frames
  <2>1. Len(fs) \in Nat /\ Unblockable(fs, tcb[t].sigmask, base[t])
    BY TaskFacts DEF TCB, Stack
  <2>2. PICK i \in 1 .. (Len(fs) + 1) : mask = MaskAt(fs, tcb[t].sigmask, i)
    <3>1. CASE mask = tcb[t].sigmask
      <4>1. MaskAt(fs, tcb[t].sigmask, Len(fs) + 1) = mask
        BY <2>1, <3>1 DEF MaskAt
      <4> QED
        BY <2>1, <4>1
    <3>2. CASE \E i \in 1 .. Len(fs) : mask = fs[i].mask
      BY <2>1, <3>2 DEF MaskAt
    <3> QED
      BY <3>1, <3>2 DEF Masks
  <2>3. /\ mask \cap {SIGKILL, SIGSTOP} = {}
        /\ \A s \in mask \cap Critical : s \in base[t] \/ \E j \in 1 .. (i - 1) : fs[j].sig = s
    BY <2>1, <2>2 DEF Unblockable
  <2>4. 1 .. (i - 1) \subseteq 1 .. Len(fs)
    BY <2>1, <2>2
  <2> QED
    BY <2>3, <2>4
<1> QED
  BY <1>1, Invariant, PTL

\* When the last handler returns the mask is the one the program asked for outside
\* its handlers: the lowest frame holds it all the time.
THEOREM MaskIsRestored == Spec => []MaskComesBack
<1>1. IInv => MaskComesBack
  <2> SUFFICES ASSUME IInv, NEW t \in Tasks
               PROVE  base[t] = IF tcb[t].frames = <<>> THEN tcb[t].sigmask ELSE tcb[t].frames[1].mask
    BY DEF MaskComesBack
  <2>1. tcb[t].frames \in Seq(Frame) /\ MaskAt(tcb[t].frames, tcb[t].sigmask, 1) = base[t]
    BY TaskFacts DEF TCB, Stack
  <2>2. Len(tcb[t].frames) \in Nat /\ (tcb[t].frames = <<>> <=> Len(tcb[t].frames) = 0)
    BY <2>1
  <2> QED
    BY <2>1, <2>2 DEF MaskAt
<1> QED
  BY <1>1, Invariant, PTL

\* No handler runs on top of another of the same signal, however deep the nesting,
\* unless SA_NODEFER or sigprocmask opened it.
THEOREM HandlersDoNotNest == Spec => []NoReentry
<1>1. IInv => NoReentry
  <2> SUFFICES ASSUME IInv, NEW t \in Tasks, NEW i \in 1 .. Len(tcb[t].frames),
                      NEW j \in 1 .. Len(tcb[t].frames), i < j,
                      tcb[t].frames[i].sig = tcb[t].frames[j].sig
               PROVE  tcb[t].frames[i].sig \in opened[t]
    BY DEF NoReentry
  <2> DEFINE fs == tcb[t].frames
  <2>1. Len(fs) \in Nat /\ Closed(fs, tcb[t].sigmask, opened[t])
    BY TaskFacts DEF TCB, Stack
  <2>2. fs[i].sig \in opened[t] \/ fs[i].sig \in MaskAt(fs, tcb[t].sigmask, j)
    BY <2>1 DEF Closed
  <2>3. MaskAt(fs, tcb[t].sigmask, j) = fs[j].mask /\ fs[j].sig \notin fs[j].mask
    BY <2>1 DEF Closed, MaskAt
  <2> QED
    BY <2>2, <2>3
<1> QED
  BY <1>1, Invariant, PTL

\* A handler starts with its signal number in a0, unless it is the topmost of those that
\* were entered, and have not run, while a system call waited.
THEOREM ArgumentIsSignal == Spec => []HandlerArgument
<1>1. IInv => HandlerArgument
  <2> SUFFICES ASSUME IInv, NEW t \in Tasks, tcb[t].cx.at = "entry", tcb[t].cx.a0 # "signum"
               PROVE  \E i \in 1 .. Len(tcb[t].frames) :
                        /\ tcb[t].frames[i].context.at = "ecall" /\ tcb[t].frames[i].context.a0 = "own"
                        /\ \A j \in (i + 1) .. Len(tcb[t].frames) : tcb[t].frames[j].context.at = "entry"
    BY DEF HandlerArgument
  <2> DEFINE fs == tcb[t].frames
  <2>1. Len(fs) \in Nat /\ Arguments(fs, tcb[t].cx)
    BY TaskFacts DEF TCB, Stack
  <2>2. CxAt(fs, tcb[t].cx, Len(fs) + 1) = tcb[t].cx
    BY <2>1 DEF CxAt
  <2>3. Waited(fs, Len(fs) + 1 - 1)
    BY <2>1, <2>2 DEF Arguments
  <2> QED
    BY <2>1, <2>3 DEF Waiting, Waited
<1> QED
  BY <1>1, Invariant, PTL
=============================================================================

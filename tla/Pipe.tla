-------------------------------- MODULE Pipe --------------------------------
(***************************************************************************)
(* A pipe: the ring buffer PipeRingBuffer, the loops of read and write     *)
(* around it, and who keeps its write end open.                            *)
(*                                                                         *)
(* A loop iteration runs under the mutex of the buffer and is not          *)
(* preempted; the mutex is free whenever a task is suspended.  A byte is   *)
(* copied at a time, by the task that holds the mutex.  A read or a write  *)
(* computes once, when it takes the mutex, how many bytes it may copy.     *)
(***************************************************************************)
EXTENDS Naturals, Sequences, FiniteSets

CONSTANTS
  N,          \* RING_BUFFER_SIZE
  Bytes,      \* the values of a byte
  Tasks,      \* the tasks that may ever exist
  Root,       \* the task that calls pipe2
  NoTask,     \* the mutex is free
  ReadLens,   \* the buffer lengths of read
  WriteBufs   \* the buffers of write

ASSUME SizeAssumption == N \in Nat \ {0}
ASSUME BytesAssumption == 0 \in Bytes
ASSUME TasksAssumption == Root \in Tasks /\ NoTask \notin Tasks
ASSUME BuffersAssumption == ReadLens \subseteq Nat /\ WriteBufs \subseteq Seq(Bytes)

VARIABLES
  arr, head, tail, status,  \* PipeRingBuffer
  lock,     \* the task that holds the mutex, or NoTask
  budget,   \* loop_read or loop_write of that task, less what it has copied
  op,       \* "idle", "read" or "write": the call the task's kernel stack is in
  want,     \* what is left of the buffer of a read
  data,     \* what is left of the buffer of a write
  ends,     \* the ends of the pipe in the task's descriptor table
  state,    \* "none", "live", "zombie" or "freed"
  last,     \* the byte that read_byte returned last
  stored    \* history: how many bytes were written and not read yet

ring == <<arr, head, tail, status, last, stored>>
mutex == <<lock, budget>>
calls == <<op, want, data>>
vars == <<arr, head, tail, status, lock, budget, op, want, data, ends, state, last,
          stored>>

Index == 0..(N - 1)

\* The types of the state.
TypeOK ==
  /\ arr \in [Index -> Bytes]
  /\ head \in Index /\ tail \in Index
  /\ status \in {"Full", "Empty", "Normal"}
  /\ lock \in Tasks \union {NoTask}
  /\ budget \in Nat
  /\ op \in [Tasks -> {"idle", "read", "write"}]
  /\ want \in [Tasks -> Nat]
  /\ data \in [Tasks -> Seq(Bytes)]
  /\ ends \in [Tasks -> SUBSET {"r", "w"}]
  /\ state \in [Tasks -> {"none", "live", "zombie", "freed"}]
  /\ last \in Bytes
  /\ stored \in 0..N

\* make_pipe, called by sys_pipe2 of Root.
Init ==
  /\ arr = [i \in Index |-> 0]
  /\ head = 0 /\ tail = 0
  /\ status = "Empty"
  /\ lock = NoTask
  /\ budget = 0
  /\ op = [t \in Tasks |-> "idle"]
  /\ want = [t \in Tasks |-> 0]
  /\ data = [t \in Tasks |-> <<>>]
  /\ ends = [t \in Tasks |-> IF t = Root THEN {"r", "w"} ELSE {}]
  /\ state = [t \in Tasks |-> IF t = Root THEN "live" ELSE "none"]
  /\ last = 0
  /\ stored = 0

-----------------------------------------------------------------------------
(* PipeRingBuffer *)

\* Mutant of write_byte: when the positions meet the buffer is taken for empty.
write_byte_empty(b) ==
  /\ arr' = [arr EXCEPT ![tail] = b]
  /\ tail' = (tail + 1) % N
  /\ status' = IF tail' = head THEN "Empty" ELSE "Normal"
  /\ stored' = stored + 1
  /\ UNCHANGED <<head, last>>

\* Mutant of write_byte: the tail does not wrap around.
write_byte_unwrapped(b) ==
  /\ arr' = [arr EXCEPT ![tail] = b]
  /\ tail' = tail + 1
  /\ status' = IF tail' = head THEN "Full" ELSE "Normal"
  /\ stored' = stored + 1
  /\ UNCHANGED <<head, last>>

\* Write a byte at the tail; the callers have checked that there is room.
write_byte(b) ==
  /\ arr' = [arr EXCEPT ![tail] = b]
  /\ tail' = (tail + 1) % N
  /\ status' = IF tail' = head THEN "Full" ELSE "Normal"
  /\ stored' = stored + 1
  /\ UNCHANGED <<head, last>>

\* Mutant of read_byte: the head moves before the byte is taken.
read_byte_after ==
  /\ last' = arr[(head + 1) % N]
  /\ head' = (head + 1) % N
  /\ status' = IF head' = tail THEN "Empty" ELSE "Normal"
  /\ stored' = stored - 1
  /\ UNCHANGED <<arr, tail>>

\* Take a byte from the head; the callers have checked that there is one.
read_byte ==
  /\ last' = arr[head]
  /\ head' = (head + 1) % N
  /\ status' = IF head' = tail THEN "Empty" ELSE "Normal"
  /\ stored' = stored - 1
  /\ UNCHANGED <<arr, tail>>

available_read ==
  IF status = "Empty" THEN 0
  ELSE IF tail > head THEN tail - head ELSE tail + N - head

available_write == IF status = "Full" THEN 0 ELSE N - available_read

\* Mutant of all_write_ends_closed: a call in progress does not keep the end open.
all_write_ends_closed_tables == \A t \in Tasks : "w" \notin ends[t]

\* The weak pointer to the write end no longer upgrades: no descriptor table holds it
\* and no write call, which has cloned it.  A zombie's table is dropped when it is
\* reaped; a call that was killed while suspended is never unwound.
all_write_ends_closed == \A t \in Tasks : "w" \notin ends[t] /\ op[t] # "write"

-----------------------------------------------------------------------------
(* read *)

\* t can start a system call.
InUser(t) == lock = NoTask /\ state[t] = "live" /\ op[t] = "idle"

\* t is at the head of the loop of a read or a write.
InLoop(t, o) == lock = NoTask /\ state[t] = "live" /\ op[t] = o

\* sys_read.  read_to_kspace (sys_sendfile) is the same loop with a buffer that never
\* fills up, like a read of N bytes or more.
Read(t, n) ==
  /\ InUser(t)
  /\ "r" \in ends[t]
  /\ op' = [op EXCEPT ![t] = "read"]
  /\ want' = [want EXCEPT ![t] = n]
  /\ UNCHANGED <<ring, mutex, data, ends, state>>

\* Return from a read or a write.
Return(t) ==
  /\ op' = [op EXCEPT ![t] = "idle"]
  /\ want' = [want EXCEPT ![t] = 0]
  /\ data' = [data EXCEPT ![t] = <<>>]

\* The mutex is free again.
Unlock == lock' = NoTask /\ budget' = 0

\* Mutant of ReadEof: the end of the file is only seen once the read end is closed too.
ReadEofUnread(t) ==
  /\ InLoop(t, "read")
  /\ available_read = 0
  /\ all_write_ends_closed
  /\ "r" \notin ends[t]
  /\ Return(t)
  /\ UNCHANGED <<ring, mutex, ends, state>>

\* Nothing to read and nobody to wait for: the read returns.  With somebody to wait for
\* it suspends and tries again (Suspend).
ReadEof(t) ==
  /\ InLoop(t, "read")
  /\ available_read = 0
  /\ all_write_ends_closed
  /\ Return(t)
  /\ UNCHANGED <<ring, mutex, ends, state>>

ReadLoop(t) ==
  /\ InLoop(t, "read")
  /\ available_read # 0
  /\ lock' = t
  /\ budget' = available_read
  /\ UNCHANGED <<ring, calls, ends, state>>

ReadByte(t) ==
  /\ lock = t /\ op[t] = "read"
  /\ budget # 0 /\ want[t] # 0
  /\ read_byte
  /\ budget' = budget - 1
  /\ want' = [want EXCEPT ![t] = @ - 1]
  /\ UNCHANGED <<lock, op, data, ends, state>>

\* The bytes that were available are read, or the buffer is full: the read returns.
ReadDone(t) ==
  /\ lock = t /\ op[t] = "read"
  /\ budget = 0 \/ want[t] = 0
  /\ Unlock
  /\ Return(t)
  /\ UNCHANGED <<ring, ends, state>>

-----------------------------------------------------------------------------
(* write *)

\* sys_write.  write_from_kspace is the same loop on a kernel buffer.
Write(t, buf) ==
  /\ InUser(t)
  /\ "w" \in ends[t]
  /\ op' = [op EXCEPT ![t] = "write"]
  /\ data' = [data EXCEPT ![t] = buf]
  /\ UNCHANGED <<ring, mutex, want, ends, state>>

\* Mutant of WriteLoop: what the buffer still holds is not subtracted.
WriteLoopWhole(t) ==
  /\ InLoop(t, "write")
  /\ available_write # 0
  /\ lock' = t
  /\ budget' = N
  /\ UNCHANGED <<ring, calls, ends, state>>

\* With no room the write suspends and tries again.
WriteLoop(t) ==
  /\ InLoop(t, "write")
  /\ available_write # 0
  /\ lock' = t
  /\ budget' = available_write
  /\ UNCHANGED <<ring, calls, ends, state>>

WriteByte(t) ==
  /\ lock = t /\ op[t] = "write"
  /\ budget # 0 /\ data[t] # <<>>
  /\ write_byte(Head(data[t]))
  /\ budget' = budget - 1
  /\ data' = [data EXCEPT ![t] = Tail(@)]
  /\ UNCHANGED <<lock, op, want, ends, state>>

\* The room that was there is used up: back to the head of the loop, even if there is
\* nothing left to write.
WriteAgain(t) ==
  /\ lock = t /\ op[t] = "write"
  /\ budget = 0
  /\ Unlock
  /\ UNCHANGED <<ring, calls, ends, state>>

\* Mutant of WriteDone: the write returns after one round.
WriteDoneShort(t) ==
  /\ lock = t /\ op[t] = "write"
  /\ budget = 0 \/ data[t] = <<>>
  /\ Unlock
  /\ Return(t)
  /\ UNCHANGED <<ring, ends, state>>

\* There was room for one more byte and no byte: the write returns.
WriteDone(t) ==
  /\ lock = t /\ op[t] = "write"
  /\ budget # 0 /\ data[t] = <<>>
  /\ Unlock
  /\ Return(t)
  /\ UNCHANGED <<ring, ends, state>>

-----------------------------------------------------------------------------
(* The descriptor tables *)

\* sys_close, called by t or by a thread that shares its table while t is in a call.
Close(t, e) ==
  /\ lock = NoTask
  /\ state[t] = "live"
  /\ e \in ends[t]
  /\ ends' = [ends EXCEPT ![t] = @ \ {e}]
  /\ UNCHANGED <<ring, mutex, calls, state>>

\* TaskControlBlock::fork without CLONE_FILES copies the table.
Fork(t, c) ==
  /\ InUser(t)
  /\ state[c] = "none"
  /\ state' = [state EXCEPT ![c] = "live"]
  /\ ends' = [ends EXCEPT ![c] = ends[t]]
  /\ UNCHANGED <<ring, mutex, calls>>

\* exit_current_and_run_next leaves the table to the zombie.
Exit(t) ==
  /\ InUser(t)
  /\ state' = [state EXCEPT ![t] = "zombie"]
  /\ UNCHANGED <<ring, mutex, calls, ends>>

\* Nothing to read or no room, and nobody has closed the pipe: suspend, and try again.
Blocked(t) ==
  \/ InLoop(t, "read") /\ available_read = 0 /\ ~all_write_ends_closed
  \/ InLoop(t, "write") /\ available_write = 0

Suspend(t) == Blocked(t) /\ UNCHANGED vars

\* SIGKILL, noticed in suspend_current_and_run_next: the task exits from there and its
\* stack, with the clone of the end, is never unwound.
Killed(t) ==
  /\ Blocked(t)
  /\ state' = [state EXCEPT ![t] = "zombie"]
  /\ UNCHANGED <<ring, mutex, calls, ends>>

\* sys_wait4 of the parent (or of initproc) drops the task and its table.  sys_write keeps
\* an Arc to the task on the stack, so a task killed in there trips the assertion of
\* sys_wait4.
Reap(c) ==
  /\ lock = NoTask
  /\ state[c] = "zombie"
  /\ op[c] # "write"
  /\ state' = [state EXCEPT ![c] = "freed"]
  /\ ends' = [ends EXCEPT ![c] = {}]
  /\ UNCHANGED <<ring, mutex, calls>>

\* What a task does at the head of a loop, and with the mutex.
Turn(t) == ReadEof(t) \/ ReadLoop(t) \/ WriteLoop(t)
Copy(t) == ReadByte(t) \/ ReadDone(t) \/ WriteByte(t) \/ WriteAgain(t) \/ WriteDone(t)

Next ==
  \E t \in Tasks :
    \/ Turn(t)
    \/ Copy(t)
    \/ \E n \in ReadLens : Read(t, n)
    \/ \E buf \in WriteBufs : Write(t, buf)
    \/ \E e \in {"r", "w"} : Close(t, e)
    \/ \E c \in Tasks : Fork(t, c)
    \/ Exit(t)
    \/ Suspend(t)
    \/ Killed(t)
    \/ Reap(t)

Spec == Init /\ [][Next]_vars

\* The task with the mutex runs on.  A suspended reader is scheduled again and again
\* (TaskManager's ReadyRuns), always with the mutex free; once the write ends are closed
\* each of these turns takes it out of the loop, hence strong fairness of those turns.
\* Nothing is assumed of a reader or writer that depends on what others do, nor of which
\* calls tasks make.
FairSpec ==
  /\ Spec
  /\ WF_vars(\E t \in Tasks : Copy(t))
  /\ \A t \in Tasks : SF_vars(all_write_ends_closed /\ (ReadEof(t) \/ ReadLoop(t)))

-----------------------------------------------------------------------------
(* Properties *)

\* The status and the positions always tell how many bytes are in the buffer: however
\* often the positions wrap around and meet, Full means that N bytes were written and not
\* read, and Empty that none were.
RingConsistent ==
  /\ status = "Normal" <=> head # tail
  /\ available_read = stored

\* The task that holds the mutex may copy as many bytes as its budget says without
\* overwriting a byte nobody has read, or reading a place nobody has written.
BudgetFits ==
  lock # NoTask =>
    /\ op[lock] = "read" => budget <= available_read
    /\ op[lock] = "write" => budget <= available_write

\* Where byte i of the queue is.
At(i) == IF head + i <= N THEN head + i - 1 ELSE head + i - 1 - N

\* What is in the buffer, oldest byte first.
Contents == [i \in 1..available_read |-> arr[At(i)]]

\* The pipe implements a queue of N bytes, whatever the readers and writers do.
Queue == INSTANCE ByteQueue WITH q <- Contents
IsQueue == Queue!Spec

\* A read that has seen the end of the file was right: once no write end is left there
\* will never be one again, and no byte enters the pipe.
EofIsFinal == [][all_write_ends_closed => all_write_ends_closed' /\ tail' = tail]_vars

\* A reader gets away once the write ends are closed: it reads what is left, or is told
\* that there is nothing.
ReaderSeesEof ==
  \A t \in Tasks : (state[t] = "live" /\ op[t] = "read" /\ all_write_ends_closed) ~> op[t] = "idle"

\* A write that has returned has put every byte into the pipe.
WriteIsComplete == [][\A t \in Tasks : op[t] = "write" /\ op'[t] = "idle" => data[t] = <<>>]_vars

=============================================================================

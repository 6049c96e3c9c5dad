------------------------------ MODULE PipeProofs ------------------------------
(***************************************************************************)
(* Proofs about Pipe, for every size of the buffer, number of tasks and    *)
(* lengths of reads and writes.                                            *)
(***************************************************************************)
EXTENDS Pipe, TLAPS

\* The task that holds the mutex is in a call.
LockHeld == lock # NoTask => op[lock] \in {"read", "write"}

\* RingConsistent alone does not survive write_byte: it needs room, which the budget of
\* the lock holder guarantees.
IInv == TypeOK /\ RingConsistent /\ BudgetFits /\ LockHeld

-----------------------------------------------------------------------------
(* The ring buffer *)

\* What (x + 1) % N is.
LEMMA NextIndex ==
  ASSUME NEW x \in Index
  PROVE  /\ (x + 1) % N \in Index
         /\ (x + 1) % N = IF x + 1 = N THEN 0 ELSE x + 1
BY SizeAssumption DEF Index

\* What is in the buffer and what fits into it add up to its size.
LEMMA Availability ==
  ASSUME TypeOK, RingConsistent
  PROVE  /\ available_read \in 0..N /\ available_write \in 0..N
         /\ available_write = N - available_read
         /\ available_read = stored
         /\ available_read = 0 <=> status = "Empty"
         /\ available_write = 0 <=> status = "Full"
BY SizeAssumption DEF TypeOK, RingConsistent, Index, available_read, available_write

\* write_byte takes one byte of the room, if there is room.
LEMMA WriteByteRoom ==
  ASSUME TypeOK, RingConsistent, NEW b, write_byte(b), available_write # 0
  PROVE  /\ RingConsistent'
         /\ available_write' = available_write - 1
         /\ available_read' = available_read + 1
<1>1. /\ tail' \in Index
      /\ tail' = IF tail + 1 = N THEN 0 ELSE tail + 1
  BY NextIndex DEF TypeOK, write_byte
<1>2. status # "Full" /\ available_write = N - available_read
  BY Availability
<1>3. /\ head' = head /\ status' = IF tail' = head THEN "Full" ELSE "Normal"
      /\ stored' = stored + 1
  BY DEF write_byte
<1>4. CASE status = "Empty"
  <2>1. head = tail
    BY <1>4 DEF RingConsistent
  <2>. QED
    BY <1>1, <1>2, <1>3, <1>4, <2>1, SizeAssumption
    DEF TypeOK, RingConsistent, Index, available_read, available_write
<1>5. CASE status = "Normal"
  <2>1. head # tail
    BY <1>5 DEF RingConsistent
  <2>. QED
    BY <1>1, <1>2, <1>3, <1>5, <2>1, SizeAssumption
    DEF TypeOK, RingConsistent, Index, available_read, available_write
<1>. QED
  BY <1>2, <1>4, <1>5 DEF TypeOK

\* read_byte takes one byte out of the buffer, if there is one.
LEMMA ReadByteRoom ==
  ASSUME TypeOK, RingConsistent, read_byte, available_read # 0
  PROVE  /\ RingConsistent'
         /\ available_read' = available_read - 1
         /\ available_write' = available_write + 1
<1>1. /\ head' \in Index
      /\ head' = IF head + 1 = N THEN 0 ELSE head + 1
  BY NextIndex DEF TypeOK, read_byte
<1>2. status # "Empty" /\ available_write = N - available_read
  BY Availability
<1>3. /\ tail' = tail /\ status' = IF head' = tail THEN "Empty" ELSE "Normal"
      /\ stored' = stored - 1
  BY DEF read_byte
<1>4. CASE status = "Full"
  <2>1. head = tail
    BY <1>4 DEF RingConsistent
  <2>. QED
    BY <1>1, <1>2, <1>3, <1>4, <2>1, SizeAssumption
    DEF TypeOK, RingConsistent, Index, available_read, available_write
<1>5. CASE status = "Normal"
  <2>1. head # tail
    BY <1>5 DEF RingConsistent
  <2>. QED
    BY <1>1, <1>2, <1>3, <1>5, <2>1, SizeAssumption
    DEF TypeOK, RingConsistent, Index, available_read, available_write
<1>. QED
  BY <1>2, <1>4, <1>5 DEF TypeOK

-----------------------------------------------------------------------------
(* The invariant *)

\* make_pipe: an empty ring and nobody in a call.
LEMMA InitIInv == Init => IInv
BY SizeAssumption, BytesAssumption, TasksAssumption
DEF Init, IInv, TypeOK, RingConsistent, BudgetFits, LockHeld, Index, available_read

\* A step that leaves the buffer and the mutex alone, and the calls of a task that holds
\* it, keeps everything but the types.
LEMMA Elsewhere ==
  ASSUME IInv, UNCHANGED <<ring, mutex>>, lock = NoTask
  PROVE  RingConsistent' /\ BudgetFits' /\ LockHeld'
BY DEF IInv, RingConsistent, BudgetFits, LockHeld, ring, mutex, available_read, available_write

\* Every step of every reader and writer keeps the inductive invariant.
LEMMA StepIInv == IInv /\ [Next]_vars => IInv'
<1>. SUFFICES ASSUME IInv, [Next]_vars PROVE IInv'
  OBVIOUS
<1>. USE SizeAssumption, TasksAssumption
<1>1. ASSUME NEW t \in Tasks, ReadEof(t) PROVE IInv'
  <2>1. TypeOK'
    BY <1>1 DEF IInv, TypeOK, ReadEof, Return, ring, mutex
  <2>. QED
    BY <1>1, <2>1, Elsewhere DEF IInv, ReadEof, InLoop
<1>2. ASSUME NEW t \in Tasks, ReadLoop(t) PROVE IInv'
  <2>1. TypeOK'
    BY <1>2, Availability DEF IInv, TypeOK, ReadLoop, ring, calls
  <2>2. RingConsistent'
    BY <1>2 DEF IInv, RingConsistent, ReadLoop, ring, available_read
  <2>3. BudgetFits' /\ LockHeld'
    BY <1>2, Availability
    DEF IInv, TypeOK, BudgetFits, LockHeld, ReadLoop, InLoop, ring, calls, available_read, available_write
  <2>. QED
    BY <2>1, <2>2, <2>3 DEF IInv
<1>3. ASSUME NEW t \in Tasks, WriteLoop(t) PROVE IInv'
  <2>1. TypeOK'
    BY <1>3, Availability DEF IInv, TypeOK, WriteLoop, ring, calls
  <2>2. RingConsistent'
    BY <1>3 DEF IInv, RingConsistent, WriteLoop, ring, available_read
  <2>3. BudgetFits' /\ LockHeld'
    BY <1>3, Availability
    DEF IInv, TypeOK, BudgetFits, LockHeld, WriteLoop, InLoop, ring, calls, available_read, available_write
  <2>. QED
    BY <2>1, <2>2, <2>3 DEF IInv
<1>4. ASSUME NEW t \in Tasks, ReadByte(t) PROVE IInv'
  <2>1. budget <= available_read /\ available_read # 0 /\ available_read = stored
    BY <1>4, Availability DEF IInv, TypeOK, BudgetFits, ReadByte
  <2>2. TypeOK'
    BY <1>4, <2>1, NextIndex DEF IInv, TypeOK, ReadByte, read_byte
  <2>3. RingConsistent' /\ available_read' = available_read - 1
    BY <1>4, <2>1, ReadByteRoom DEF IInv, ReadByte
  <2>4. BudgetFits' /\ LockHeld'
    BY <1>4, <2>1, <2>3, Availability DEF IInv, TypeOK, BudgetFits, LockHeld, ReadByte
  <2>. QED
    BY <2>2, <2>3, <2>4 DEF IInv
<1>5. ASSUME NEW t \in Tasks, WriteByte(t) PROVE IInv'
  <2>1. Head(data[t]) \in Bytes /\ Tail(data[t]) \in Seq(Bytes)
    BY <1>5 DEF IInv, TypeOK, WriteByte
  <2>2. budget <= available_write /\ available_write # 0 /\ available_write = N - stored
    BY <1>5, Availability DEF IInv, TypeOK, BudgetFits, WriteByte
  <2>3. TypeOK'
    BY <1>5, <2>1, <2>2, NextIndex DEF IInv, TypeOK, WriteByte, write_byte
  <2>4. RingConsistent' /\ available_write' = available_write - 1
    BY <1>5, <2>2, WriteByteRoom DEF IInv, WriteByte
  <2>5. BudgetFits' /\ LockHeld'
    BY <1>5, <2>2, <2>4, Availability DEF IInv, TypeOK, BudgetFits, LockHeld, WriteByte
  <2>. QED
    BY <2>3, <2>4, <2>5 DEF IInv
<1>6. ASSUME NEW t \in Tasks, ReadDone(t) \/ WriteDone(t) \/ WriteAgain(t) PROVE IInv'
  <2>1. TypeOK'
    <3>1. CASE ReadDone(t)
      BY <3>1 DEF IInv, TypeOK, ReadDone, Return, Unlock, ring
    <3>2. CASE WriteDone(t)
      BY <3>2 DEF IInv, TypeOK, WriteDone, Return, Unlock, ring
    <3>3. CASE WriteAgain(t)
      BY <3>3 DEF IInv, TypeOK, WriteAgain, Unlock, ring, calls
    <3>. QED
      BY <1>6, <3>1, <3>2, <3>3
  <2>2. RingConsistent'
    BY <1>6 DEF IInv, RingConsistent, ReadDone, WriteDone, WriteAgain, ring, available_read
  <2>3. BudgetFits' /\ LockHeld'
    BY <1>6 DEF BudgetFits, LockHeld, ReadDone, WriteDone, WriteAgain, Unlock
  <2>. QED
    BY <2>1, <2>2, <2>3 DEF IInv
<1>7. ASSUME NEW t \in Tasks, NEW n \in ReadLens, Read(t, n) PROVE IInv'
  <2>1. TypeOK'
    BY <1>7, BuffersAssumption DEF IInv, TypeOK, Read, ring, mutex
  <2>. QED
    BY <1>7, <2>1, Elsewhere DEF IInv, Read, InUser
<1>8. ASSUME NEW t \in Tasks, NEW buf \in WriteBufs, Write(t, buf) PROVE IInv'
  <2>1. TypeOK'
    BY <1>8, BuffersAssumption DEF IInv, TypeOK, Write, ring, mutex
  <2>. QED
    BY <1>8, <2>1, Elsewhere DEF IInv, Write, InUser
<1>9. ASSUME NEW t \in Tasks, NEW e \in {"r", "w"}, Close(t, e) PROVE IInv'
  <2>1. TypeOK'
    BY <1>9 DEF IInv, TypeOK, Close, ring, mutex, calls
  <2>. QED
    BY <1>9, <2>1, Elsewhere DEF IInv, Close
<1>10. ASSUME NEW t \in Tasks, NEW c \in Tasks, Fork(t, c) PROVE IInv'
  <2>1. TypeOK'
    BY <1>10 DEF IInv, TypeOK, Fork, ring, mutex, calls
  <2>. QED
    BY <1>10, <2>1, Elsewhere DEF IInv, Fork, InUser
<1>11. ASSUME NEW t \in Tasks, Exit(t) \/ Killed(t) \/ Reap(t) PROVE IInv'
  <2>1. TypeOK'
    BY <1>11 DEF IInv, TypeOK, Exit, Killed, Reap, ring, mutex, calls
  <2>. QED
    BY <1>11, <2>1, Elsewhere DEF IInv, Exit, Killed, Reap, InUser, Blocked, InLoop
<1>12. ASSUME UNCHANGED vars PROVE IInv'
  BY <1>12 DEF IInv, TypeOK, RingConsistent, BudgetFits, LockHeld, vars, available_read,
     available_write
<1>. QED
  BY <1>1, <1>2, <1>3, <1>4, <1>5, <1>6, <1>7, <1>8, <1>9, <1>10, <1>11, <1>12
  DEF Next, Turn, Copy, Suspend

\* The positions, the status and the calls keep their types.
THEOREM TypeCorrect == Spec => []TypeOK
<1>1. IInv => TypeOK
  BY DEF IInv
<1>. QED
  BY <1>1, InitIInv, StepIInv, PTL DEF Spec

\* However often the positions wrap around and meet, available_read is the number of bytes
\* written and not read: Full is never taken for Empty, nor Empty for Full.
THEOREM RingIsConsistent == Spec => []RingConsistent
<1>1. IInv => RingConsistent
  BY DEF IInv
<1>. QED
  BY <1>1, InitIInv, StepIInv, PTL DEF Spec

\* A budget computed once stays good for the whole copying loop.
THEOREM BudgetAlwaysFits == Spec => []BudgetFits
<1>1. IInv => BudgetFits
  BY DEF IInv
<1>. QED
  BY <1>1, InitIInv, StepIInv, PTL DEF Spec

-----------------------------------------------------------------------------
(* The end of the file *)

\* A write end comes only from a task that already holds one.
LEMMA ClosedStaysClosed ==
  ASSUME TypeOK, [Next]_vars, all_write_ends_closed
  PROVE  all_write_ends_closed' /\ tail' = tail
<1>1. CASE UNCHANGED vars
  BY <1>1 DEF vars, all_write_ends_closed
<1>2. ASSUME NEW t \in Tasks, Turn(t) PROVE all_write_ends_closed' /\ tail' = tail
  BY <1>2 DEF Turn, ReadEof, ReadLoop, WriteLoop, InLoop, Return, ring, calls, mutex, TypeOK,
     all_write_ends_closed
<1>3. ASSUME NEW t \in Tasks, Copy(t) PROVE all_write_ends_closed' /\ tail' = tail
  BY <1>3 DEF Copy, ReadByte, ReadDone, WriteByte, WriteAgain, WriteDone, read_byte, Return,
     Unlock, ring, calls, TypeOK, all_write_ends_closed
<1>4. ASSUME NEW t \in Tasks, NEW n \in ReadLens, Read(t, n)
      PROVE  all_write_ends_closed' /\ tail' = tail
  BY <1>4 DEF Read, ring, TypeOK, all_write_ends_closed
<1>5. ASSUME NEW t \in Tasks, NEW buf \in WriteBufs, Write(t, buf) PROVE FALSE
  BY <1>5 DEF Write, all_write_ends_closed
<1>6. ASSUME NEW t \in Tasks, NEW c \in Tasks, Fork(t, c)
      PROVE  all_write_ends_closed' /\ tail' = tail
  BY <1>6 DEF Fork, ring, calls, TypeOK, all_write_ends_closed
<1>7. ASSUME NEW t \in Tasks, NEW e \in {"r", "w"}, Close(t, e)
      PROVE  all_write_ends_closed' /\ tail' = tail
  BY <1>7 DEF Close, ring, calls, TypeOK, all_write_ends_closed
<1>8. ASSUME NEW t \in Tasks, Exit(t) \/ Killed(t) \/ Reap(t)
      PROVE  all_write_ends_closed' /\ tail' = tail
  BY <1>8 DEF Exit, Killed, Reap, ring, calls, TypeOK, all_write_ends_closed
<1>. QED
  BY <1>1, <1>2, <1>3, <1>4, <1>5, <1>6, <1>7, <1>8 DEF Next, Suspend

\* A reader that was told of the end of the file was told the truth.
THEOREM EofFinal == Spec => EofIsFinal
<1>1. TypeOK /\ [Next]_vars => [all_write_ends_closed => all_write_ends_closed' /\ tail' = tail]_vars
  BY ClosedStaysClosed
<1>. QED
  BY <1>1, TypeCorrect, PTL DEF Spec, EofIsFinal

-----------------------------------------------------------------------------
(* Every byte that is written is in the pipe when the write returns *)

\* A writer leaves its call only through WriteDone, with nothing left to write.
LEMMA ReturnsWhenWritten ==
  ASSUME TypeOK, [Next]_vars, NEW t \in Tasks, op[t] = "write", op'[t] = "idle"
  PROVE  data[t] = <<>>
<1>1. ASSUME NEW u \in Tasks, Turn(u) \/ Copy(u) PROVE data[t] = <<>>
  BY <1>1 DEF Turn, ReadEof, ReadLoop, WriteLoop, InLoop, Copy, ReadByte, ReadDone, WriteByte,
     WriteAgain, WriteDone, Return, calls, TypeOK
<1>2. ASSUME NEW u \in Tasks, NEW n \in ReadLens, Read(u, n) PROVE FALSE
  BY <1>2 DEF Read, InUser, TypeOK
<1>3. ASSUME NEW u \in Tasks, NEW buf \in WriteBufs, Write(u, buf) PROVE FALSE
  BY <1>3 DEF Write, InUser, TypeOK
<1>4. ASSUME NEW u \in Tasks, \/ \E e \in {"r", "w"} : Close(u, e)
                             \/ \E c \in Tasks : Fork(u, c)
                             \/ Exit(u) \/ Killed(u) \/ Reap(u)
      PROVE  FALSE
  BY <1>4 DEF Close, Fork, Exit, Killed, Reap, calls
<1>. QED
  BY <1>1, <1>2, <1>3, <1>4 DEF Next, Suspend, vars

\* However many rounds a write takes, it returns only when its buffer is used up.
THEOREM WriteComplete == Spec => WriteIsComplete
<1>1. TypeOK /\ [Next]_vars
        => [\A t \in Tasks : op[t] = "write" /\ op'[t] = "idle" => data[t] = <<>>]_vars
  BY ReturnsWhenWritten
<1>. QED
  BY <1>1, TypeCorrect, PTL DEF Spec, WriteIsComplete

-----------------------------------------------------------------------------
(* Refinement: the ring buffer is a queue *)

\* The ring read from head to tail is a sequence of its available_read bytes.
LEMMA ContentsSeq ==
  ASSUME TypeOK, RingConsistent
  PROVE  /\ Contents \in Seq(Bytes)
         /\ Len(Contents) = available_read
         /\ \A i \in 1..available_read : At(i) \in Index /\ Contents[i] = arr[At(i)]
<1>1. available_read \in 0..N
  BY Availability
<1>2. \A i \in 1..available_read : At(i) \in Index
  BY <1>1, SizeAssumption DEF At, Index, TypeOK
<1>. QED
  BY <1>1, <1>2 DEF Contents, TypeOK

\* The same fact as an implication, in the form that can be primed.
LEMMA ContentsIsSeq ==
  TypeOK /\ RingConsistent => Contents \in Seq(Bytes) /\ Len(Contents) = available_read
BY ContentsSeq

\* The same fact after a step.
LEMMA ContentsSeqNext ==
  (TypeOK /\ RingConsistent)' => (Contents \in Seq(Bytes) /\ Len(Contents) = available_read)'
BY ContentsIsSeq, PTL

\* write_byte appends to the contents: the place it writes to is the one after the last.
LEMMA WriteByteAppends ==
  ASSUME TypeOK, TypeOK', RingConsistent, NEW b \in Bytes, write_byte(b), available_write # 0
  PROVE  Contents' = Append(Contents, b)
<1>1. PICK n \in 0..N : n = available_read
  BY Availability
<1>2. available_read' = n + 1 /\ n < N /\ RingConsistent'
  BY <1>1, WriteByteRoom, Availability, SizeAssumption
<1>3. head' = head /\ arr' = [arr EXCEPT ![tail] = b]
  BY DEF write_byte
<1>4. At(n + 1) = tail /\ \A i \in 1..n : At(i) # tail
  BY <1>1, <1>2, SizeAssumption
  DEF At, TypeOK, Index, available_read, RingConsistent
<1>5. \A i \in 1..(n + 1) : At(i)' = At(i)
  BY <1>3 DEF At
<1>6. \A i \in 1..n : Contents'[i] = Contents[i]
  BY <1>1, <1>2, <1>3, <1>4, <1>5, ContentsSeq DEF Contents, TypeOK
<1>7. Contents'[n + 1] = b
  BY <1>1, <1>2, <1>3, <1>4, <1>5 DEF Contents, TypeOK
<1>8. Contents' \in Seq(Bytes) /\ Len(Contents') = n + 1
  BY <1>2, ContentsSeqNext
<1>9. Contents \in Seq(Bytes) /\ Len(Contents) = n
  BY <1>1, ContentsSeq
<1>. QED
  BY <1>6, <1>7, <1>8, <1>9

\* read_byte takes the first byte of the contents.
LEMMA ReadByteTakes ==
  ASSUME TypeOK, TypeOK', RingConsistent, read_byte, available_read # 0
  PROVE  Contents # <<>> /\ last' = Head(Contents) /\ Contents' = Tail(Contents)
<1>1. PICK n \in 1..N : n = available_read
  BY Availability
<1>2. available_read' = n - 1 /\ RingConsistent'
  BY <1>1, ReadByteRoom
<1>3. arr' = arr /\ last' = arr[head]
  BY DEF read_byte
<1>4. head' = IF head + 1 = N THEN 0 ELSE head + 1
  BY NextIndex DEF TypeOK, read_byte
<1>5. At(1) = head /\ \A i \in 1..(n - 1) : At(i)' = At(i + 1)
  BY <1>1, <1>4, SizeAssumption DEF At, TypeOK, Index
<1>6. Contents \in Seq(Bytes) /\ Len(Contents) = n
  BY <1>1, ContentsSeq
<1>7. Contents # <<>> /\ last' = Head(Contents)
  BY <1>1, <1>3, <1>5, <1>6, ContentsSeq
<1>8. \A i \in 1..(n - 1) : Contents'[i] = Contents[i + 1]
  BY <1>1, <1>2, <1>3, <1>5, ContentsSeq DEF Contents
<1>9. Contents' \in Seq(Bytes) /\ Len(Contents') = n - 1
  BY <1>2, ContentsSeqNext
<1>. QED
  BY <1>6, <1>7, <1>8, <1>9

\* An empty ring is an empty queue.
LEMMA RefinesInit == Init => Queue!Init
<1>. SUFFICES ASSUME Init PROVE Contents = <<>> /\ last \in Bytes
  BY DEF Queue!Init
<1>1. available_read = 0
  BY DEF Init, available_read
<1>. QED
  BY <1>1, BytesAssumption DEF Init, Contents

\* write_byte appends, read_byte removes the head, and every other step stutters.
LEMMA RefinesNext == IInv /\ IInv' /\ [Next]_vars => [Queue!Next]_<<Contents, last>>
<1>. SUFFICES ASSUME IInv, IInv', [Next]_vars PROVE [Queue!Next]_<<Contents, last>>
  OBVIOUS
<1>1. ASSUME NEW t \in Tasks, ReadByte(t) PROVE Queue!Get
  <2>1. available_read # 0
    BY <1>1, Availability, TasksAssumption DEF IInv, TypeOK, BudgetFits, ReadByte
  <2>. QED
    BY <1>1, <2>1, ReadByteTakes DEF IInv, ReadByte, Queue!Get
<1>2. ASSUME NEW t \in Tasks, WriteByte(t) PROVE Queue!Put(Head(data[t])) /\ Head(data[t]) \in Bytes
  <2>1. available_write # 0 /\ available_read < N
    BY <1>2, Availability, SizeAssumption, TasksAssumption DEF IInv, TypeOK, BudgetFits, WriteByte
  <2>2. Head(data[t]) \in Bytes
    BY <1>2 DEF IInv, TypeOK, WriteByte
  <2>3. last' = last
    BY <1>2 DEF WriteByte, write_byte
  <2>. QED
    BY <1>2, <2>1, <2>2, <2>3, WriteByteAppends, ContentsSeq DEF IInv, WriteByte, Queue!Put
<1>3. ASSUME UNCHANGED ring PROVE UNCHANGED <<Contents, last>>
  BY <1>3 DEF ring, Contents, At, available_read
<1>4. ASSUME Next, ~(\E t \in Tasks : ReadByte(t) \/ WriteByte(t)) PROVE UNCHANGED ring
  BY <1>4 DEF Next, Turn, Copy, ReadEof, ReadLoop, ReadDone, WriteLoop, WriteAgain, WriteDone,
     Read, Write, Close, Fork, Exit, Suspend, Killed, Reap, ring, vars
<1>5. ASSUME UNCHANGED vars PROVE UNCHANGED ring
  BY <1>5 DEF vars, ring
<1>. QED
  BY <1>1, <1>2, <1>3, <1>4, <1>5 DEF Queue!Next

\* The pipe implements ByteQueue: no byte is lost, duplicated, reordered or made up, for
\* any size of the ring and any mix of readers and writers.
THEOREM PipeIsQueue == Spec => IsQueue
<1>1. Spec => []IInv
  BY InitIInv, StepIInv, PTL DEF Spec
<1>. QED
  BY <1>1, RefinesInit, RefinesNext, PTL DEF Spec, IsQueue, Queue!Spec

===============================================================================

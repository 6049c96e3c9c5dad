------------------------------ MODULE ByteQueue ------------------------------
(***************************************************************************)
(* What a pipe promises: a queue of at most N bytes.  A byte that goes in  *)
(* comes out once, in the order of arrival, and nothing else comes out.    *)
(***************************************************************************)
EXTENDS Naturals, Sequences

CONSTANTS N, Bytes

VARIABLES
  q,      \* the bytes in the pipe, oldest first
  last    \* the byte that came out last

Init == q = <<>> /\ last \in Bytes

Put(b) == Len(q) < N /\ q' = Append(q, b) /\ UNCHANGED last

Get == q # <<>> /\ last' = Head(q) /\ q' = Tail(q)

Next == Get \/ \E b \in Bytes : Put(b)

Spec == Init /\ [][Next]_<<q, last>>

=============================================================================

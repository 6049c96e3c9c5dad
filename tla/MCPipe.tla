-------------------------------- MODULE MCPipe --------------------------------
(* TLC instances of Pipe. *)
EXTENDS Pipe

\* A write that fills the buffer of 2 bytes exactly, or takes two rounds when a byte is
\* still in it.
Bufs == {<<1, 0>>}
===============================================================================

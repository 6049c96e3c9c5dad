--------------------------- MODULE PrivateMemory ---------------------------
(***************************************************************************)
(* What an address space promises its process: a memory of its own.  mem   *)
(* is the content of every page of every space.  A store changes one page  *)
(* of one space, fork gives the child a copy of the parent's memory, and   *)
(* nothing is shared.  There are no frames, page tables or page faults.    *)
(***************************************************************************)
CONSTANTS
  Spaces,
  InitLive,   \* the spaces that exist at boot
  Vpns,
  Contents,   \* what a page may hold
  Images,     \* memories of a freshly loaded program
  Gone        \* stands for the memory of a space that does not exist

VARIABLES live, mem

Init ==
  /\ live = InitLive
  /\ \E m \in Images : mem = [s \in Spaces |-> IF s \in InitLive THEN m ELSE Gone]

\* Mapping or unmapping a page is also a store, of its new content.
Store(s) ==
  /\ \E v \in Vpns, d \in Contents : mem' = [mem EXCEPT ![s][v] = d]
  /\ UNCHANGED live

Fork(s, c) ==
  /\ live' = live \cup {c}
  /\ mem' = [mem EXCEPT ![c] = mem[s]]

Exec(s) ==
  /\ \E m \in Images : mem' = [mem EXCEPT ![s] = m]
  /\ UNCHANGED live

Drop(s) ==
  /\ live' = live \ {s}
  /\ mem' = [mem EXCEPT ![s] = Gone]

Next ==
  \E s \in live : \/ Store(s)
                  \/ Exec(s)
                  \/ Drop(s)
                  \/ \E c \in Spaces \ live : Fork(s, c)

Spec == Init /\ [][Next]_<<live, mem>>
=============================================================================

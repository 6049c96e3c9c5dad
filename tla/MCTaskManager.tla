---------------------------- MODULE MCTaskManager ----------------------------
(* TLC instances of TaskManager. *)
EXTENDS TaskManager, TLC

\* Tasks other than initproc are interchangeable, and so are the futex words.
Symmetry == Permutations(Tasks \ {INITPROC}) \union Permutations(Addrs)
=============================================================================

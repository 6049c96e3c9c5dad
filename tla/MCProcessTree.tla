---------------------------- MODULE MCProcessTree ----------------------------
(* TLC instances of ProcessTree. *)
EXTENDS ProcessTree

\* Waiting for any child, and also for one that may be a child, a grandchild, a thread
\* or a stranger (cfg files cannot write -1).
AnyOnly == {AnyChild}
AnyOrTwo == {AnyChild, 2}
=============================================================================

---------------------------- MODULE MCCowMemory ----------------------------
(* Instances of CowMemory, in which frames are interchangeable.            *)
EXTENDS CowMemory, TLC

Symmetry == Permutations(Frames) \cup Permutations(Spaces \ {INITPROC, BUSYBOX})
=============================================================================

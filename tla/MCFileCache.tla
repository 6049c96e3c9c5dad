---------------------------- MODULE MCFileCache ----------------------------
(* TLC instance of FileCache, in which KFiles are interchangeable. *)
EXTENDS FileCache, TLC

Symmetry == Permutations(Descs)
=============================================================================

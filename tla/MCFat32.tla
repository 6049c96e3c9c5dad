------------------------------ MODULE MCFat32 ------------------------------
(* TLC instance of Fat32. *)
EXTENDS Fat32

\* A write of the first cluster, and one across the border of two clusters.
MCWrites == {<<0, 2>>, <<1, 2>>}
=============================================================================

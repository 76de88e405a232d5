---------------------------- MODULE MCDataTable -----------------------------
(***************************************************************************)
(* Instances of DataTable for TLC.                                         *)
(***************************************************************************)
EXTENDS DataTable, TLC

CONSTANTS t1, t2

\* Threads are interchangeable.
Symmetry == Permutations(Thread)
=============================================================================

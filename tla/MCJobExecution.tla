--------------------------- MODULE MCJobExecution ---------------------------
(* Small instances of JobExecution. *)
EXTENDS JobExecution, TLC

Symmetry == Permutations(Execs) \cup Permutations(Callers)
=============================================================================

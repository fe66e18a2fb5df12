--------------------------- MODULE MCJobLifecycle ---------------------------
(* Model values of the job's lifecycle for TLC.                             *)
EXTENDS JobLifecycle, TLC

Symmetry == Permutations(Workers) \cup Permutations(Reapers)
=============================================================================

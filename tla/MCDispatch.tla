----------------------------- MODULE MCDispatch -----------------------------
(* Constants and symmetry for model-checking Dispatch.                     *)
EXTENDS Dispatch, TLC

Symmetry == Permutations(Jobs) \cup Permutations(Workers)
=============================================================================

----------------------------- MODULE MCTraining -----------------------------
(* Model values of one account's training for TLC.                          *)
EXTENDS Training, TLC

Symmetry == Permutations(Jobs) \cup Permutations(Trainings)
=============================================================================

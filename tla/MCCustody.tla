------------------------------ MODULE MCCustody ------------------------------
(* Model values of custody and rendering for TLC, and their symmetry.       *)
EXTENDS Custody, TLC

Symmetry == Permutations(Requests)

\* Bounds: either two requests to train, or one and a job; no training is under way while
\* the inference container works, as with one GPU; and with the quality gate on, nothing
\* else is in the middle of its work and nothing was bought since.
Apart ==
  /\ row.status # "none" => Cardinality({r \in Requests : At(r) # "idle"}) <= 1
  /\ Working => \A r \in Requests : train[r].status \in {"none", "ended"}
  /\ run.gate =>
       sweep.stage = "idle" /\ deletion = "none" /\ ~reset /\ ~clock /\ user.credits = 0
=============================================================================

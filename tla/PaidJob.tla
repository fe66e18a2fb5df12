------------------------------ MODULE PaidJob ------------------------------
(***************************************************************************)
(* What is promised for the credits of one generation job: its results are *)
(* delivered, or it fails and the credits come back, now or as a debt that *)
(* is paid later; never both, and never twice.                             *)
(***************************************************************************)
EXTENDS Naturals

CONSTANTS
  Balances, \* what a job may have been paid from
  Lossy     \* whether a refund or a debt may get lost

VARIABLES
  phase,   \* "paid", and then for good "delivered" or "failed"
  results, \* there are results
  back,    \* by balance: how often it was restored
  owed     \* a refund is written down as owed

promise == <<phase, results, back, owed>>

Nothing == [b \in Balances |-> 0]
Refunds == [Balances -> {0, 1}] \ {Nothing}

Init == phase = "paid" /\ results = FALSE /\ back = Nothing /\ owed = FALSE

\* Work on a job may go on after its end.
Produce == results' = TRUE /\ UNCHANGED <<phase, back, owed>>

Deliver ==
  /\ phase = "paid" /\ results
  /\ phase' = "delivered" /\ UNCHANGED <<results, back, owed>>

Refund == back' \in Refunds /\ owed' = FALSE

Fail ==
  /\ phase = "paid" /\ phase' = "failed" /\ UNCHANGED results
  /\ Refund \/ (UNCHANGED back /\ (owed' = TRUE \/ (Lossy /\ owed' = FALSE)))

Compensate ==
  /\ phase = "failed" /\ owed
  /\ Refund /\ UNCHANGED <<phase, results>>

Forget ==
  /\ Lossy /\ phase = "failed" /\ owed
  /\ owed' = FALSE /\ UNCHANGED <<phase, results, back>>

Next == Produce \/ Deliver \/ Fail \/ Compensate \/ Forget

Spec == Init /\ [][Next]_promise
=============================================================================

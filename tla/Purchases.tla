------------------------------ MODULE Purchases ------------------------------
(***************************************************************************)
(* What billing promises of every checkout: it is granted once, after it   *)
(* was paid, and what was granted is never granted again.                  *)
(***************************************************************************)
CONSTANT Sessions
VARIABLE phase  \* how far every purchase is

Init == phase = [s \in Sessions |-> "none"]

Move(s, from, to) == phase[s] = from /\ phase' = [phase EXCEPT ![s] = to]

Offer(s) == Move(s, "none", "offered")
Lapse(s) == Move(s, "offered", "void")
Pay(s)   == Move(s, "offered", "paid")
Grant(s) == Move(s, "paid", "granted")

Next == \E s \in Sessions : Offer(s) \/ Lapse(s) \/ Pay(s) \/ Grant(s)

Spec == Init /\ [][Next]_phase
=============================================================================

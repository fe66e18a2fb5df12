----------------------------- MODULE AtLeastOnce -----------------------------
(***************************************************************************)
(* What the transactional outbox promises: a message is sent only after    *)
(* the transaction that needs it committed, it may be sent any number of   *)
(* times, and it is settled (never looked at again) only after it was      *)
(* sent, or once its attempts are used up.                                 *)
(***************************************************************************)
CONSTANT Messages

VARIABLES
  committed, \* messages whose transaction committed
  sent,      \* messages that reached the queue, once or several times
  settled,   \* messages known to have been sent
  abandoned  \* messages whose attempts are used up

vars == <<committed, sent, settled, abandoned>>

Init ==
  /\ committed = {}
  /\ sent = {}
  /\ settled = {}
  /\ abandoned = {}

Commit(m) ==
  /\ m \notin committed
  /\ committed' = committed \cup {m}
  /\ UNCHANGED <<sent, settled, abandoned>>

Deliver(m) ==
  /\ m \in committed
  /\ sent' = sent \cup {m}
  /\ UNCHANGED <<committed, settled, abandoned>>

Settle(m) ==
  /\ m \in sent
  /\ settled' = settled \cup {m}
  /\ UNCHANGED <<committed, sent, abandoned>>

Abandon(m) ==
  /\ m \in committed
  /\ abandoned' = abandoned \cup {m}
  /\ UNCHANGED <<committed, sent, settled>>

Next == \E m \in Messages : Commit(m) \/ Deliver(m) \/ Settle(m) \/ Abandon(m)

Spec == Init /\ [][Next]_vars
=============================================================================

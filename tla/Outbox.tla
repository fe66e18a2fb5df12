------------------------------- MODULE Outbox -------------------------------
(***************************************************************************)
(* The transactional outbox (shared/outbox.py): a row is inserted by the   *)
(* transaction that needs its message sent, the process that committed it  *)
(* sends it at once (the fast path), and a timer sends what the fast path  *)
(* did not.  A sender reads, sends and marks in separate steps, and two    *)
(* senders may be at the same row.                                         *)
(***************************************************************************)
EXTENDS Naturals, Sequences, FiniteSets

CONSTANTS
  Rows,        \* bound: rows the model may insert
  MaxAttempts, \* max_attempts of outbox_dispatch_pending
  MaxBatch,    \* max_batch of outbox_dispatch_pending
  Faults       \* which of FaultKinds may happen

FaultKinds == {
  "queueDown",  \* the storage queue refuses a message
  "dbFails",    \* the bookkeeping after a send raises
  "senderDies" } \* a sender dies

ASSUME OutboxConstants ==
  /\ Rows \in Nat /\ MaxAttempts \in Nat \ {0} /\ MaxBatch \in Nat \ {0}
  /\ Faults \subseteq FaultKinds

VARIABLES
  outbox, \* the rows in outbox_id order: failed attempts, delivered_at
  fast,   \* the fast path of every row: what its process does next
  batch,  \* the rows the timer's tick selected and has not finished
  step,   \* what the tick does next with the oldest of them
  sent    \* rows of which a copy of the message, or several, reached the queue

vars == <<outbox, fast, batch, step, sent>>

RowIds == 1..Len(outbox)

Init ==
  /\ outbox = <<>>
  /\ fast = [r \in 1..Rows |-> "none"]
  /\ batch = {}
  /\ step = "none"
  /\ sent = {}

\* outbox_add within a transaction that commits; its process goes on to send the row.
Commit ==
  /\ Len(outbox) < Rows
  /\ outbox' = Append(outbox, [attempts |-> 0, delivered |-> FALSE])
  /\ fast' = [fast EXCEPT ![Len(outbox) + 1] = "send"]
  /\ UNCHANGED <<batch, step, sent>>

-----------------------------------------------------------------------------
(* What a sender does to a row.                                            *)

\* The queue accepts the message.
Accept(r) == sent' = sent \cup {r}

\* _mark_delivered.
Mark(r) == outbox' = [outbox EXCEPT ![r].delivered = TRUE]

\* _record_failure; attempts beyond MaxAttempts make no difference.
Fail(r) ==
  outbox' = [outbox EXCEPT ![r].attempts = IF @ < MaxAttempts THEN @ + 1 ELSE @]

-----------------------------------------------------------------------------
(* The fast path: outbox_try_send_now never raises to its caller's caller. *)

FastGo(r, next) == fast' = [fast EXCEPT ![r] = next]

FastSend(r) ==
  /\ fast[r] = "send" /\ Accept(r)
  /\ FastGo(r, "mark")
  /\ UNCHANGED <<outbox, batch, step>>

\* Mutated form of FastSendFails: a refused message is marked as sent.
FastSendFailsMarked(r) ==
  /\ "queueDown" \in Faults /\ fast[r] = "send"
  /\ FastGo(r, "mark")
  /\ UNCHANGED <<outbox, batch, step, sent>>

FastSendFails(r) ==
  /\ "queueDown" \in Faults /\ fast[r] = "send"
  /\ FastGo(r, "fail")
  /\ UNCHANGED <<outbox, batch, step, sent>>

FastMark(r) ==
  /\ fast[r] = "mark" /\ Mark(r)
  /\ FastGo(r, "done")
  /\ UNCHANGED <<batch, step, sent>>

FastFail(r) ==
  /\ fast[r] = "fail" /\ Fail(r)
  /\ FastGo(r, "done")
  /\ UNCHANGED <<batch, step, sent>>

\* The process dies, or its bookkeeping raises and the caller swallows it.
FastStops(r) ==
  /\ \/ "senderDies" \in Faults /\ fast[r] \in {"send", "mark", "fail"}
     \/ "dbFails" \in Faults /\ fast[r] \in {"mark", "fail"}
  /\ FastGo(r, "done")
  /\ UNCHANGED <<outbox, batch, step, sent>>

-----------------------------------------------------------------------------
(* The timer: one tick at a time.                                          *)

\* Mutated form of Pending: the last attempt is not made.
PendingButOne(r) == ~outbox[r].delivered /\ outbox[r].attempts < MaxAttempts - 1

Pending(r) == ~outbox[r].delivered /\ outbox[r].attempts < MaxAttempts

\* The timer skips a row whose attempts are used up.
GivenUp(r) == r \in RowIds /\ outbox[r].attempts = MaxAttempts

\* The rows a tick selects: the oldest pending ones, MaxBatch at most.
Due ==
  LET pending == {r \in RowIds : Pending(r)} IN
  {r \in pending : Cardinality({p \in pending : p < r}) < MaxBatch}

\* They are sent in outbox_id order.
First == CHOOSE r \in batch : \A q \in batch : r <= q

Tick ==
  /\ batch = {} /\ Due # {}
  /\ batch' = Due
  /\ step' = "send"
  /\ UNCHANGED <<outbox, fast, sent>>

NextRow ==
  /\ batch' = batch \ {First}
  /\ step' = IF batch = {First} THEN "none" ELSE "send"

TickSend ==
  /\ step = "send" /\ Accept(First)
  /\ step' = "mark"
  /\ UNCHANGED <<outbox, fast, batch>>

TickSendFails ==
  /\ "queueDown" \in Faults /\ step = "send"
  /\ step' = "fail"
  /\ UNCHANGED <<outbox, fast, batch, sent>>

TickMark ==
  /\ step = "mark" /\ Mark(First)
  /\ NextRow
  /\ UNCHANGED <<fast, sent>>

TickFail ==
  /\ step = "fail" /\ Fail(First)
  /\ NextRow
  /\ UNCHANGED <<fast, sent>>

\* The process dies, or its bookkeeping raises: the rest of the batch is left.
TickStops ==
  /\ \/ "senderDies" \in Faults /\ step # "none"
     \/ "dbFails" \in Faults /\ step \in {"mark", "fail"}
  /\ batch' = {} /\ step' = "none"
  /\ UNCHANGED <<outbox, fast, sent>>

-----------------------------------------------------------------------------
FastPath(r) ==
  FastSend(r) \/ FastSendFails(r) \/ FastMark(r) \/ FastFail(r) \/ FastStops(r)

Timer == Tick \/ TickSend \/ TickSendFails \/ TickMark \/ TickFail \/ TickStops

Next == Commit \/ (\E r \in 1..Rows : FastPath(r)) \/ Timer

Spec == Init /\ [][Next]_vars

\* The timer fires, and a tick that is interrupted again and again does not stay
\* interrupted forever.
Fairness ==
  /\ WF_vars(Tick) /\ WF_vars(TickFail)
  /\ SF_vars(TickSend) /\ SF_vars(TickMark)

FairSpec == Spec /\ Fairness

-----------------------------------------------------------------------------
(* Properties.                                                             *)

\* Rows and senders have their types, and a tick has a row while it works.
TypeOK ==
  /\ outbox \in Seq([attempts : 0..MaxAttempts, delivered : BOOLEAN])
  /\ Len(outbox) <= Rows
  /\ fast \in [1..Rows -> {"none", "send", "mark", "fail", "done"}]
  /\ batch \subseteq RowIds
  /\ step \in {"none", "send", "mark", "fail"}
  /\ step = "none" <=> batch = {}
  /\ sent \subseteq RowIds

\* The outbox implements at-least-once delivery.
Abstract ==
  INSTANCE AtLeastOnce WITH
    Messages <- 1..Rows,
    committed <- RowIds,
    settled <- {r \in RowIds : outbox[r].delivered},
    abandoned <- {r \in RowIds : GivenUp(r)}

DeliversAtLeastOnce == Abstract!Spec

\* Every committed message reaches the queue, unless its attempts were used up.
EveryRowIsSent ==
  \A r \in 1..Rows :
    r \in RowIds ~> (r \in sent \/ GivenUp(r))
=============================================================================

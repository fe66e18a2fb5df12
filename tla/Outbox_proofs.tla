---------------------------- MODULE Outbox_proofs ----------------------------
(***************************************************************************)
(* The outbox, for any number of rows, attempts and any batch size: its    *)
(* types, and that it implements AtLeastOnce.                              *)
(***************************************************************************)
EXTENDS Outbox, TLAPS, WellFoundedInduction

\* A sender that is about to mark a row has sent it.
MarkersSent ==
  /\ \A r \in 1..Rows : fast[r] = "mark" => r \in sent
  /\ step = "mark" => First \in sent

\* Only the process that inserted a row sends it at once.
FastHasRow == \A r \in 1..Rows : fast[r] # "none" => r \in RowIds

Inv == TypeOK /\ MarkersSent /\ FastHasRow

USE OutboxConstants

-----------------------------------------------------------------------------
\* A set of natural numbers that is not empty has a smallest one.
LEMMA Smallest ==
  ASSUME NEW S \in SUBSET Nat, S # {}
  PROVE  \E r \in S : \A q \in S : r <= q
<1>1. \E r \in S : \A q \in S : <<q, r>> \notin OpToRel(<, Nat)
  BY NatLessThanWellFounded, WFMin
<1>2. \A q, r \in S : <<q, r>> \notin OpToRel(<, Nat) => r <= q
  BY DEF OpToRel
<1> QED
  BY <1>1, <1>2

\* The tick handles a row of its batch, and the row exists.
LEMMA FirstInBatch ==
  ASSUME TypeOK, batch # {}
  PROVE  First \in batch /\ First \in RowIds
<1>1. batch \in SUBSET Nat /\ batch \subseteq RowIds
  BY DEF TypeOK, RowIds
<1>2. \E r \in batch : \A q \in batch : r <= q
  BY <1>1, Smallest
<1> QED
  BY <1>1, <1>2 DEF First

\* The same batch has the same first row.
LEMMA SameBatch ==
  ASSUME batch' = batch
  PROVE  First' = First
BY DEF First

\* The type of a row of the table.
Row == [attempts : 0..MaxAttempts, delivered : BOOLEAN]

\* Changing one row leaves the table's length and its other rows alone.
LEMMA OneRow ==
  ASSUME outbox \in Seq(Row), NEW r \in RowIds, NEW row \in Row,
         outbox' = [outbox EXCEPT ![r] = row]
  PROVE  /\ outbox' \in Seq(Row)
         /\ Len(outbox') = Len(outbox) /\ RowIds' = RowIds
         /\ outbox'[r] = row /\ \A q \in RowIds : q # r => outbox'[q] = outbox[q]
BY DEF RowIds

\* What _mark_delivered leaves of a row and of the table.
LEMMA Marking ==
  ASSUME outbox \in Seq(Row), NEW r \in RowIds, Mark(r)
  PROVE  /\ outbox' \in Seq(Row)
         /\ Len(outbox') = Len(outbox) /\ RowIds' = RowIds
         /\ outbox'[r].delivered /\ outbox'[r].attempts = outbox[r].attempts
         /\ \A q \in RowIds : q # r => outbox'[q] = outbox[q]
<1> DEFINE row == [outbox[r] EXCEPT !.delivered = TRUE]
<1>1. outbox[r] \in Row
  BY DEF RowIds
<1>2. row \in Row /\ row.delivered /\ row.attempts = outbox[r].attempts
  BY <1>1 DEF Row
<1>3. outbox' = [outbox EXCEPT ![r] = row]
  BY DEF Mark
<1> QED
  BY <1>2, <1>3, OneRow

\* What _record_failure leaves of a row and of the table.
LEMMA Failing ==
  ASSUME outbox \in Seq(Row), NEW r \in RowIds, Fail(r)
  PROVE  /\ outbox' \in Seq(Row)
         /\ Len(outbox') = Len(outbox) /\ RowIds' = RowIds
         /\ outbox'[r].delivered = outbox[r].delivered
         /\ outbox[r].attempts = MaxAttempts => outbox'[r].attempts = MaxAttempts
         /\ \A q \in RowIds : q # r => outbox'[q] = outbox[q]
<1> DEFINE row == [outbox[r] EXCEPT !.attempts = IF @ < MaxAttempts THEN @ + 1 ELSE @]
<1>1. outbox[r] \in Row
  BY DEF RowIds
<1>2. /\ row \in Row /\ row.delivered = outbox[r].delivered
      /\ outbox[r].attempts = MaxAttempts => row.attempts = MaxAttempts
  BY <1>1 DEF Row
<1>3. outbox' = [outbox EXCEPT ![r] = row]
  BY DEF Fail
<1> QED
  BY <1>2, <1>3, OneRow

-----------------------------------------------------------------------------
LEMMA InitInv == Init => Inv
<1> SUFFICES ASSUME Init PROVE Inv
  OBVIOUS
<1>1. RowIds = {}
  BY DEF Init, RowIds
<1>2. outbox \in Seq([attempts : 0..MaxAttempts, delivered : BOOLEAN]) /\ Len(outbox) = 0
  BY DEF Init
<1> QED
  BY <1>1, <1>2 DEF Init, Inv, TypeOK, MarkersSent, FastHasRow

\* A new row takes nothing from the senders.
LEMMA CommitInv ==
  ASSUME Inv, Commit
  PROVE  Inv'
<1> DEFINE new == [attempts |-> 0, delivered |-> FALSE]
           n == Len(outbox) + 1
<1>1. outbox \in Seq(Row) /\ new \in Row /\ n \in 1..Rows
  BY DEF Inv, TypeOK, Commit, Row
<1>2. outbox' = Append(outbox, new)
  BY DEF Commit
<1> HIDE DEF new
<1>3. /\ outbox' \in Seq(Row) /\ Len(outbox') = n
      /\ outbox'[n] = new /\ \A r \in RowIds : outbox'[r] = outbox[r]
      /\ RowIds \subseteq RowIds' /\ n \in RowIds' /\ RowIds' = RowIds \cup {n}
  BY <1>1, <1>2 DEF RowIds
<1>4. fast' = [fast EXCEPT ![n] = "send"] /\ UNCHANGED <<batch, step, sent>>
  BY DEF Commit
<1>5. TypeOK'
  BY <1>1, <1>3, <1>4 DEF Inv, TypeOK, Row
<1>6. MarkersSent' /\ FastHasRow'
  BY <1>1, <1>3, <1>4, SameBatch DEF Inv, TypeOK, MarkersSent, FastHasRow
<1> QED
  BY <1>5, <1>6 DEF Inv

\* A step of a row's fast path.
LEMMA FastInv ==
  ASSUME Inv, NEW r \in 1..Rows, FastPath(r)
  PROVE  Inv'
<1>1. r \in RowIds
  BY DEF Inv, FastHasRow, FastPath, FastSend, FastSendFails, FastMark, FastFail, FastStops
<1>2. First' = First /\ UNCHANGED <<batch, step>>
  BY SameBatch DEF FastPath, FastSend, FastSendFails, FastMark, FastFail, FastStops
<1>3. CASE FastSend(r)
  BY <1>1, <1>2, <1>3 DEF Inv, TypeOK, MarkersSent, FastHasRow, FastSend,
                          FastGo, Accept, RowIds
<1>4. CASE FastSendFails(r) \/ FastStops(r)
  BY <1>1, <1>2, <1>4 DEF Inv, TypeOK, MarkersSent, FastHasRow,
                          FastSendFails, FastStops, FastGo, RowIds
<1>5. CASE FastMark(r)
  BY <1>1, <1>2, <1>5, Marking DEF Row, Inv, TypeOK, MarkersSent, FastHasRow,
                                       FastMark, FastGo
<1>6. CASE FastFail(r)
  BY <1>1, <1>2, <1>6, Failing DEF Row, Inv, TypeOK, MarkersSent, FastHasRow,
                                       FastFail, FastGo
<1> QED
  BY <1>3, <1>4, <1>5, <1>6 DEF FastPath

\* A step of the timer.
LEMMA TimerInv ==
  ASSUME Inv, Timer
  PROVE  Inv'
<1>1. ASSUME batch # {} PROVE First \in batch /\ First \in RowIds
  BY <1>1, FirstInBatch DEF Inv
<1>2. CASE Tick
  <2>1. Due \subseteq RowIds
    BY DEF Due
  <2> QED
    BY <1>2, <2>1 DEF Inv, TypeOK, MarkersSent, FastHasRow, Tick, RowIds
<1>3. CASE TickSend
  BY <1>1, <1>3, SameBatch DEF Inv, TypeOK, MarkersSent, FastHasRow, TickSend,
                               Accept, RowIds
<1>4. CASE TickSendFails \/ TickStops
  BY <1>4 DEF Inv, TypeOK, MarkersSent, FastHasRow, TickSendFails, TickStops, RowIds
<1>5. CASE TickMark
  <2>1. batch # {} /\ First \in RowIds /\ Mark(First) /\ First \in sent
    BY <1>1, <1>5 DEF TickMark, Inv, TypeOK, MarkersSent
  <2>2. /\ outbox' \in Seq([attempts : 0..MaxAttempts, delivered : BOOLEAN])
        /\ Len(outbox') = Len(outbox) /\ RowIds' = RowIds
        /\ \A q \in RowIds : q # First => outbox'[q] = outbox[q]
    BY <2>1, Marking DEF Inv, TypeOK, Row
  <2> QED
    BY <1>1, <1>5, <2>1, <2>2 DEF Inv, TypeOK, MarkersSent, FastHasRow,
                                  TickMark, NextRow
<1>6. CASE TickFail
  <2>1. batch # {} /\ First \in RowIds /\ Fail(First)
    BY <1>1, <1>6 DEF TickFail, Inv, TypeOK
  <2>2. /\ outbox' \in Seq([attempts : 0..MaxAttempts, delivered : BOOLEAN])
        /\ Len(outbox') = Len(outbox) /\ RowIds' = RowIds
        /\ \A q \in RowIds : outbox'[q].delivered = outbox[q].delivered
    BY <2>1, Failing DEF Inv, TypeOK, Row
  <2> QED
    BY <1>1, <1>6, <2>1, <2>2 DEF Inv, TypeOK, MarkersSent, FastHasRow,
                                  TickFail, NextRow
<1> QED
  BY <1>2, <1>3, <1>4, <1>5, <1>6 DEF Timer

LEMMA NextInv == Inv /\ [Next]_vars => Inv'
<1> SUFFICES ASSUME Inv, [Next]_vars PROVE Inv'
  OBVIOUS
<1>1. CASE Next
  BY <1>1, CommitInv, FastInv, TimerInv DEF Next
<1>2. CASE UNCHANGED vars
  BY <1>2, SameBatch DEF vars, Inv, TypeOK, MarkersSent, FastHasRow, RowIds
<1> QED
  BY <1>1, <1>2

\* In every behaviour the invariant holds.
THEOREM Invariance == Spec => []Inv
BY InitInv, NextInv, PTL DEF Spec

\* Rows, attempts and senders keep their types, whatever the number of rows and the size
\* of a batch.
THEOREM TypeCorrect == Spec => []TypeOK
<1>1. Inv => TypeOK
  BY DEF Inv
<1> QED
  BY <1>1, Invariance, PTL

-----------------------------------------------------------------------------
(* The refinement.                                                         *)

\* Rows marked, and rows whose attempts are used up, as AtLeastOnce sees them.
Marked == {r \in RowIds : outbox[r].delivered}
UsedUp == {r \in RowIds : GivenUp(r)}

LEMMA InitRefines == Init => Abstract!Init
<1> SUFFICES ASSUME Init PROVE Abstract!Init
  OBVIOUS
<1>1. RowIds = {}
  BY DEF Init, RowIds
<1> QED
  BY <1>1 DEF Init, Abstract!Init

\* What changes no row, sends nothing and adds nothing is a stutter.
LEMMA StutterRefines ==
  ASSUME UNCHANGED <<outbox, sent>>
  PROVE  UNCHANGED Abstract!vars
BY DEF Abstract!vars, RowIds, GivenUp

LEMMA CommitRefines ==
  ASSUME Inv, Commit
  PROVE  Abstract!Next
<1> DEFINE n == Len(outbox) + 1
           new == [attempts |-> 0, delivered |-> FALSE]
<1>1. outbox \in Seq(Row) /\ new \in Row /\ n \in 1..Rows /\ n \notin RowIds
  BY DEF Inv, TypeOK, Commit, Row, RowIds
<1>2. outbox' = Append(outbox, new) /\ sent' = sent
  BY DEF Commit
<1>3. new.delivered = FALSE /\ new.attempts # MaxAttempts
  OBVIOUS
<1> HIDE DEF new
<1>4. /\ RowIds' = RowIds \cup {n}
      /\ outbox'[n] = new /\ \A r \in RowIds : outbox'[r] = outbox[r]
  BY <1>1, <1>2 DEF RowIds
<1>5. Marked' = Marked /\ UsedUp' = UsedUp
  BY <1>1, <1>3, <1>4 DEF Marked, UsedUp, GivenUp
<1>6. Abstract!Commit(n)
  BY <1>1, <1>2, <1>4, <1>5 DEF Abstract!Commit, Marked, UsedUp
<1> QED
  BY <1>1, <1>6 DEF Abstract!Next

\* A row is sent, whichever sender sends it.
LEMMA AcceptRefines ==
  ASSUME NEW r \in RowIds, Inv, Accept(r), UNCHANGED outbox
  PROVE  Abstract!Next
<1>1. r \in 1..Rows
  BY DEF Inv, TypeOK, RowIds
<1>2. RowIds' = RowIds /\ Marked' = Marked /\ UsedUp' = UsedUp
  BY DEF RowIds, Marked, UsedUp, GivenUp
<1>3. Abstract!Deliver(r)
  BY <1>2 DEF Abstract!Deliver, Accept, Marked, UsedUp
<1> QED
  BY <1>1, <1>3 DEF Abstract!Next

\* A row that was sent is marked.
LEMMA MarkRefines ==
  ASSUME NEW r \in RowIds, Inv, Mark(r), r \in sent, UNCHANGED sent
  PROVE  Abstract!Next
<1>1. outbox \in Seq(Row) /\ r \in 1..Rows
  BY DEF Inv, TypeOK, RowIds, Row
<1>2. /\ RowIds' = RowIds
      /\ outbox'[r].delivered /\ outbox'[r].attempts = outbox[r].attempts
      /\ \A q \in RowIds : q # r => outbox'[q] = outbox[q]
  BY <1>1, Marking
<1>3. Marked' = Marked \cup {r} /\ UsedUp' = UsedUp
  BY <1>2 DEF Marked, UsedUp, GivenUp
<1>4. Abstract!Settle(r)
  BY <1>2, <1>3 DEF Abstract!Settle, Marked, UsedUp
<1> QED
  BY <1>1, <1>4 DEF Abstract!Next

\* A failed attempt may be the last one.
LEMMA FailRefines ==
  ASSUME NEW r \in RowIds, Inv, Fail(r), UNCHANGED sent
  PROVE  [Abstract!Next]_(Abstract!vars)
<1>1. outbox \in Seq(Row) /\ r \in 1..Rows
  BY DEF Inv, TypeOK, RowIds, Row
<1>2. /\ RowIds' = RowIds
      /\ outbox'[r].delivered = outbox[r].delivered
      /\ outbox[r].attempts = MaxAttempts => outbox'[r].attempts = MaxAttempts
      /\ \A q \in RowIds : q # r => outbox'[q] = outbox[q]
  BY <1>1, Failing
<1>3. Marked' = Marked /\ (UsedUp' = UsedUp \/ UsedUp' = UsedUp \cup {r})
  BY <1>2 DEF Marked, UsedUp, GivenUp
<1>4. CASE UsedUp' = UsedUp
  BY <1>2, <1>3, <1>4 DEF Abstract!vars, Marked, UsedUp
<1>5. CASE UsedUp' = UsedUp \cup {r}
  <2>1. Abstract!Abandon(r)
    BY <1>2, <1>3, <1>5 DEF Abstract!Abandon, Marked, UsedUp
  <2> QED
    BY <1>1, <2>1 DEF Abstract!Next
<1> QED
  BY <1>3, <1>4, <1>5

LEMMA NextRefines == Inv /\ [Next]_vars => [Abstract!Next]_(Abstract!vars)
<1> SUFFICES ASSUME Inv, [Next]_vars PROVE [Abstract!Next]_(Abstract!vars)
  OBVIOUS
<1>1. CASE Commit
  BY <1>1, CommitRefines
<1>2. ASSUME NEW r \in 1..Rows, FastPath(r)
      PROVE  [Abstract!Next]_(Abstract!vars)
  <2>1. r \in RowIds
    BY <1>2 DEF Inv, FastHasRow, FastPath, FastSend, FastSendFails, FastMark, FastFail, FastStops
  <2>2. CASE FastSend(r)
    BY <2>1, <2>2, AcceptRefines DEF FastSend
  <2>3. CASE FastSendFails(r) \/ FastStops(r)
    BY <2>3, StutterRefines DEF FastSendFails, FastStops
  <2>4. CASE FastMark(r)
    <3>1. r \in sent
      BY <1>2, <2>4 DEF FastMark, Inv, MarkersSent
    <3> QED
      BY <2>1, <2>4, <3>1, MarkRefines DEF FastMark
  <2>5. CASE FastFail(r)
    BY <2>1, <2>5, FailRefines DEF FastFail
  <2> QED
    BY <1>2, <2>2, <2>3, <2>4, <2>5 DEF FastPath
<1>3. ASSUME Timer
      PROVE  [Abstract!Next]_(Abstract!vars)
  <2>1. step # "none" => First \in RowIds
    BY FirstInBatch DEF Inv, TypeOK
  <2>2. CASE Tick \/ TickSendFails \/ TickStops
    BY <2>2, StutterRefines DEF Tick, TickSendFails, TickStops
  <2>3. CASE TickSend
    BY <2>1, <2>3, AcceptRefines DEF TickSend
  <2>4. CASE TickMark
    <3>1. First \in sent
      BY <2>4 DEF TickMark, Inv, MarkersSent
    <3> QED
      BY <2>1, <2>4, <3>1, MarkRefines DEF TickMark
  <2>5. CASE TickFail
    BY <2>1, <2>5, FailRefines DEF TickFail
  <2> QED
    BY <1>3, <2>2, <2>3, <2>4, <2>5 DEF Timer
<1>4. CASE UNCHANGED vars
  BY <1>4, StutterRefines DEF vars
<1> QED
  BY <1>1, <1>2, <1>3, <1>4 DEF Next

\* The table, its fast path and its timer implement at-least-once delivery: nothing is
\* sent before its transaction committed, and nothing is settled before it was sent.
THEOREM ImplementsAtLeastOnce == Spec => DeliversAtLeastOnce
<1>1. Spec => []Inv
  BY Invariance
<1> QED
  BY <1>1, InitRefines, NextRefines, PTL DEF Spec, DeliversAtLeastOnce, Abstract!Spec
=============================================================================

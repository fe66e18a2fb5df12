--------------------------- MODULE Dispatch_proofs ---------------------------
(***************************************************************************)
(* Theorems about Dispatch, for any set of jobs and workers and any        *)
(* bounds: its types, at most one start of a job, rows that name their own *)
(* executions, a message for every job that waits, failures of waiting     *)
(* jobs only, and, for a cap of one, one GPU at a time.                    *)
(***************************************************************************)
EXTENDS Dispatch, FiniteSetTheorems, SequenceTheorems, TLAPS

Exec == [job : Jobs, phase : Phases]
ExtIds == Nat \cup {NameNone}

-----------------------------------------------------------------------------
(* Lemmas about the pieces of the handlers.                                *)

\* The newest of a set of executions is one of them, or the default.
LEMMA NewestIsMember ==
  ASSUME NEW S, NEW d PROVE Newest(S, d) \in S \cup {d}
BY DEF Newest

\* The executions API lists finitely many executions.
LEMMA ListedCount ==
  ASSUME execs \in Seq(Exec) PROVE Cardinality(ListedActive) \in Nat
<1>1. IsFiniteSet(1..Len(execs))  BY FS_Interval
<1>2. ListedActive \subseteq 1..Len(execs)  BY DEF ListedActive, ExecIds
<1>3. IsFiniteSet(ListedActive)  BY <1>1, <1>2, FS_Subset
<1> QED  BY <1>3, FS_CardinalityType

\* Adding or removing one copy of a message keeps the queue a bag.
LEMMA BagPut ==
  ASSUME queue \in [Message -> Nat], NEW m \in Message
  PROVE  [queue EXCEPT ![m] = @ + 1] \in [Message -> Nat]
OBVIOUS

LEMMA BagTake ==
  ASSUME queue \in [Message -> Nat], NEW m \in Message, queue[m] > 0
  PROVE  [queue EXCEPT ![m] = @ - 1] \in [Message -> Nat]
OBVIOUS

LEMMA BagMove ==
  ASSUME queue \in [Message -> Nat], NEW m \in Message, NEW b \in Message,
         queue[m] > 0
  PROVE  [queue EXCEPT ![m] = @ - 1, ![b] = @ + 1] \in [Message -> Nat]
<1> DEFINE took == [queue EXCEPT ![m] = @ - 1]
<1>1. took \in [Message -> Nat]  BY BagTake
<1> HIDE DEF took
<1>2. [took EXCEPT ![b] = @ + 1] \in [Message -> Nat]  BY <1>1
<1> QED  BY <1>2 DEF took

LEMMA WithDequeues ==
  ASSUME NEW m \in Message, NEW d \in 0..MaxDequeue
  PROVE  [m EXCEPT !.deq = d] \in Message
BY DEF Message

LEMMA MarkFailedType ==
  ASSUME status \in [Jobs -> Statuses], NEW j, MarkFailed(j)
  PROVE  status' \in [Jobs -> Statuses]
BY DEF MarkFailed, Statuses, Terminal

LEMMA RecordIdType ==
  ASSUME extId \in [Jobs -> ExtIds], NEW j, NEW e \in ExtIds, RecordId(j, e)
  PROVE  extId' \in [Jobs -> ExtIds]
BY DEF RecordId

LEMMA DeferType ==
  ASSUME NEW w \in Workers, hand \in [Workers -> Message \cup {NoMsg}],
         hand[w] \in Message, status \in [Jobs -> Statuses], queue \in [Message -> Nat], DeferJob(w)
  PROVE  /\ status' \in [Jobs -> Statuses] /\ queue' \in [Message -> Nat]
         /\ hand' \in [Workers -> Message \cup {NoMsg}]
         /\ \A v \in Workers \ {w} : hand'[v] = hand[v]
<1>1. /\ hand' \in [Workers -> Message \cup {NoMsg}]
      /\ \A v \in Workers \ {w} : hand'[v] = hand[v]
  BY DEF DeferJob, Ack
<1>2. CASE hand[w].defers >= MaxDefers
  BY <1>1, <1>2, MarkFailedType DEF DeferJob
<1>3. CASE ~(hand[w].defers >= MaxDefers)
  <2>1. [job |-> JobOf(w), defers |-> hand[w].defers + 1, deq |-> 0] \in Message
    BY <1>3, DispatchConstants DEF Message, JobOf
  <2> QED  BY <1>1, <1>3, <2>1, BagPut DEF DeferJob, Put
<1> QED  BY <1>2, <1>3

\* Starting an execution, or moving one to another phase, keeps the list typed.
LEMMA AppendExec ==
  ASSUME execs \in Seq(Exec), NEW j \in Jobs
  PROVE  LET new == Append(execs, [job |-> j, phase |-> "hidden"]) IN
           /\ new \in Seq(Exec) /\ Len(new) = Len(execs) + 1
           /\ \A e \in 1..Len(execs) : new[e] = execs[e]
           /\ new[Len(execs) + 1].job = j
<1>1. [job |-> j, phase |-> "hidden"] \in Exec  BY DEF Exec, Phases
<1> QED  BY <1>1, AppendProperties

LEMMA PhaseExec ==
  ASSUME execs \in Seq(Exec), NEW e \in ExecIds, NEW p \in Phases, Phase(e, p)
  PROVE  /\ execs' \in Seq(Exec) /\ Len(execs') = Len(execs)
         /\ \A f \in ExecIds : execs'[f].job = execs[f].job
<1> DEFINE r == [execs[e] EXCEPT !.phase = p]
<1>1. execs[e] \in Exec  BY DEF ExecIds
<1>2. r \in Exec /\ r.job = execs[e].job  BY <1>1 DEF Exec
<1>3. execs' = [execs EXCEPT ![e] = r]  BY DEF Phase
<1> HIDE DEF r
<1>4. execs' \in Seq(Exec) /\ Len(execs') = Len(execs)
  BY <1>2, <1>3, ExceptSeq DEF ExecIds
<1>5. ASSUME NEW f \in ExecIds PROVE execs'[f].job = execs[f].job
  BY <1>2, <1>3, <1>5 DEF ExecIds
<1> QED  BY <1>4, <1>5

-----------------------------------------------------------------------------
(* Type correctness.                                                       *)

\* A worker between the receive and the acknowledgement holds a message.
HandOK ==
  \A w \in Workers : pc[w] \notin {"idle", "release"} => hand[w] \in Message

TypeInv == TypeOK /\ HandOK

LEMMA TypeInit == Init => TypeInv
<1> SUFFICES ASSUME Init PROVE TypeInv  OBVIOUS
<1> USE DispatchConstants DEF Init
<1>1. queue \in [Message -> Nat]  OBVIOUS
<1>2. execs \in Seq([job : Jobs, phase : Phases])  OBVIOUS
<1>3. status \in [Jobs -> Statuses]  BY DEF Statuses
<1>4. extId \in [Jobs -> Nat \cup {NameNone}]  OBVIOUS
<1>5. pc \in [Workers -> Steps]  BY DEF Steps
<1>6. HandOK  BY DEF HandOK
<1>7. hand \in [Workers -> Message \cup {NoMsg}]  OBVIOUS
<1>8. found \in [Workers -> Nat \cup {NameNone}]  OBVIOUS
<1>9. count \in [Workers -> Nat]  OBVIOUS
<1>10. copies \in 0..MaxCopies  OBVIOUS
<1> HIDE DEF Init
<1> QED  BY <1>1, <1>2, <1>3, <1>4, <1>5, <1>6, <1>7, <1>8, <1>9, <1>10
         DEF TypeInv, TypeOK, Init
LEMMA TypeStep == TypeInv /\ [Next]_vars => TypeInv'
<1> SUFFICES ASSUME TypeInv, [Next]_vars PROVE TypeInv'  OBVIOUS
<1> USE DEF TypeInv, TypeOK, Exec, ExtIds, jobVars, leaseVars, queueVars, workerVars
<1>1. ASSUME NEW w \in Workers, Receive(w) PROVE TypeInv'
  <2>1. queue' \in [Message -> Nat]
    BY <1>1, BagTake DEF Receive
  <2>2. \E m \in Message : hand' = [hand EXCEPT ![w] = m]
    <3>1. PICK m \in Message : /\ m.deq < MaxDequeue
                               /\ hand' = [hand EXCEPT ![w] = [m EXCEPT !.deq = @ + 1]]
      BY <1>1 DEF Receive
    <3>2. m.deq \in 0..MaxDequeue  BY DEF Message
    <3>3. m.deq + 1 \in 0..MaxDequeue  BY <3>1, <3>2, DispatchConstants
    <3>4. [m EXCEPT !.deq = m.deq + 1] \in Message  BY <3>3, WithDequeues
    <3> QED  BY <3>1, <3>4
  <2>3. hand' \in [Workers -> Message \cup {NoMsg}]
    BY <1>1, <2>2
  <2>4. pc' \in [Workers -> Steps]
    BY <1>1 DEF Receive, Go, Steps
  <2>5. HandOK'
    BY <1>1, <2>2 DEF Receive, Go, HandOK
  <2> QED  BY <1>1, <2>1, <2>2, <2>3, <2>4, <2>5 DEF Receive
<1>2. ASSUME NEW w \in Workers, ReceivePaused(w) PROVE TypeInv'
  <2>1. queue' \in [Message -> Nat]
    <3>1. PICK m \in Message :
            /\ queue[m] > 0
            /\ LET back == [m EXCEPT !.deq = 0]
               IN queue' = IF back = m THEN queue
                           ELSE [queue EXCEPT ![m] = @ - 1, ![back] = @ + 1]
      BY <1>2 DEF ReceivePaused
    <3> DEFINE back == [m EXCEPT !.deq = 0]
    <3>2. back \in Message  BY DispatchConstants, WithDequeues
    <3> HIDE DEF back
    <3>3. queue' = IF back = m THEN queue
                   ELSE [queue EXCEPT ![m] = @ - 1, ![back] = @ + 1]
      BY <3>1 DEF back
    <3>4. CASE back = m  BY <3>3, <3>4
    <3>5. CASE back # m
      <4>1. queue \in [Message -> Nat] /\ queue[m] > 0  BY <3>1
      <4>2. [queue EXCEPT ![m] = @ - 1, ![back] = @ + 1] \in [Message -> Nat]
        BY <4>1, <3>2, BagMove
      <4> QED  BY <3>3, <3>5, <4>2
    <3> QED  BY <3>4, <3>5
  <2> QED  BY <1>2, <2>1 DEF ReceivePaused, HandOK
<1>3. ASSUME NEW w \in Workers, Acquire(w) PROVE TypeInv'
  <2>1. leaseOwner' \in Workers \cup {NoWorker} /\ leaseLive' \in BOOLEAN
    BY <1>3 DEF Acquire
  <2>2. pc' \in [Workers -> Steps]
    BY <1>3 DEF Acquire, Go, Steps
  <2>3. HandOK'
    BY <1>3 DEF Acquire, Go, HandOK
  <2> QED  BY <1>3, <2>1, <2>2, <2>3 DEF Acquire
<1>4. ASSUME NEW w \in Workers, AcquireBusy(w) PROVE TypeInv'
  <2>1. hand[w] \in Message
    BY <1>4 DEF AcquireBusy, HandOK
  <2>2. status' \in [Jobs -> Statuses] /\ queue' \in [Message -> Nat] /\ hand' \in [Workers -> Message \cup {NoMsg}]
        /\ \A v \in Workers \ {w} : hand'[v] = hand[v]
    BY <1>4, <2>1, DeferType DEF AcquireBusy
  <2>3. pc' \in [Workers -> Steps]
    BY <1>4 DEF AcquireBusy, Go, Steps
  <2>4. HandOK'
    BY <1>4, <2>2 DEF AcquireBusy, Go, HandOK
  <2> QED  BY <1>4, <2>1, <2>2, <2>3, <2>4 DEF AcquireBusy
<1>5. ASSUME NEW w \in Workers, AcquireError(w) PROVE TypeInv'
  <2>1. status' \in [Jobs -> Statuses]
    BY <1>5, MarkFailedType DEF AcquireError
  <2>2. hand' \in [Workers -> Message \cup {NoMsg}]
    BY <1>5 DEF AcquireError, Ack
  <2>3. pc' \in [Workers -> Steps]
    BY <1>5 DEF AcquireError, Ack, Go, Steps
  <2>4. HandOK'
    BY <1>5 DEF AcquireError, Ack, Go, HandOK
  <2> QED  BY <1>5, <2>1, <2>2, <2>3, <2>4 DEF AcquireError
<1>6. ASSUME NEW w \in Workers, ReadRow(w) PROVE TypeInv'
  <2>1. Newest({e \in Listed : execs[e].job = JobOf(w)}, 0) \in Nat
    <3> DEFINE mine == {e \in Listed : execs[e].job = JobOf(w)}
    <3>1. mine \subseteq Nat  BY DEF Listed, ExecIds
    <3>2. Newest(mine, 0) \in mine \cup {0}  BY NewestIsMember
    <3> QED  BY <3>1, <3>2
  <2>2. found' \in [Workers -> ExtIds]
    BY <1>6, <2>1 DEF ReadRow, ExtIds
  <2>3. pc' \in [Workers -> Steps]
    BY <1>6 DEF ReadRow, Go, Steps
  <2>4. HandOK'
    BY <1>6 DEF ReadRow, Go, HandOK
  <2> QED  BY <1>6, <2>1, <2>2, <2>3, <2>4 DEF ReadRow
<1>7. ASSUME NEW w \in Workers, Recover(w) PROVE TypeInv'
  <2>1. extId' \in [Jobs -> ExtIds]
    BY <1>7, RecordIdType DEF Recover
  <2>2. pc' \in [Workers -> Steps]
    BY <1>7 DEF Recover, Go, Steps
  <2>3. HandOK'
    BY <1>7 DEF Recover, Go, HandOK
  <2> QED  BY <1>7, <2>1, <2>2, <2>3 DEF Recover
<1>8. ASSUME NEW w \in Workers, CountActive(w) PROVE TypeInv'
  <2>1. count' \in [Workers -> Nat]
    BY <1>8, ListedCount DEF CountActive
  <2>2. pc' \in [Workers -> Steps]
    BY <1>8 DEF CountActive, Go, Steps
  <2>3. HandOK'
    BY <1>8 DEF CountActive, Go, HandOK
  <2> QED  BY <1>8, <2>1, <2>2, <2>3 DEF CountActive
<1>9. ASSUME NEW w \in Workers, CheckCap(w) PROVE TypeInv'
  <2>1. hand[w] \in Message
    BY <1>9 DEF CheckCap, HandOK
  <2>2. status' \in [Jobs -> Statuses] /\ queue' \in [Message -> Nat] /\ hand' \in [Workers -> Message \cup {NoMsg}]
        /\ \A v \in Workers \ {w} : hand'[v] = hand[v]
    BY <1>9, <2>1, DeferType DEF CheckCap
  <2>3. pc' \in [Workers -> Steps]
    BY <1>9 DEF CheckCap, Go, Steps
  <2>4. AtCap(w) => pc' = [pc EXCEPT ![w] = "release"]
    BY <1>9 DEF CheckCap, Go
  <2>5. ~AtCap(w) => hand' = hand /\ pc' = [pc EXCEPT ![w] = "claim"]
    BY <1>9 DEF CheckCap, Go
  <2>6. HandOK'
    BY <1>9, <2>1, <2>2, <2>4, <2>5 DEF HandOK
  <2> QED  BY <1>9, <2>1, <2>2, <2>3, <2>4, <2>5, <2>6 DEF CheckCap
<1>10. ASSUME NEW w \in Workers, ApiRaises(w) PROVE TypeInv'
  <2>1. pc' \in [Workers -> Steps]
    BY <1>10 DEF ApiRaises, Go, Steps
  <2>2. HandOK'
    BY <1>10 DEF ApiRaises, Go, HandOK
  <2> QED  BY <1>10, <2>1, <2>2 DEF ApiRaises
<1>11. ASSUME NEW w \in Workers, Claim(w) PROVE TypeInv'
  <2>1. status' \in [Jobs -> Statuses]
    BY <1>11 DEF Claim, Statuses
  <2>2. pc' \in [Workers -> Steps]
    BY <1>11 DEF Claim, Go, Steps
  <2>3. HandOK'
    BY <1>11 DEF Claim, Go, HandOK
  <2> QED  BY <1>11, <2>1, <2>2, <2>3 DEF Claim
<1>12. ASSUME NEW w \in Workers, Mark(w) PROVE TypeInv'
  <2>1. pending' \in BOOLEAN
    BY <1>12 DEF Mark
  <2>2. pc' \in [Workers -> Steps]
    BY <1>12 DEF Mark, Go, Steps
  <2>3. HandOK'
    BY <1>12 DEF Mark, Go, HandOK
  <2> QED  BY <1>12, <2>1, <2>2, <2>3 DEF Mark
<1>13. ASSUME NEW w \in Workers, Start(w) PROVE TypeInv'
  <2>1. JobOf(w) \in Jobs
    BY <1>13 DEF Start, HandOK, Message, JobOf
  <2>2. execs' \in Seq(Exec)
    BY <1>13, <2>1, AppendExec DEF Start
  <2>3. found' \in [Workers -> ExtIds]
    BY <1>13 DEF Start, ExtIds
  <2>4. pc' \in [Workers -> Steps]
    BY <1>13 DEF Start, Go, Steps
  <2>5. HandOK'
    BY <1>13 DEF Start, Go, HandOK
  <2> QED  BY <1>13, <2>1, <2>2, <2>3, <2>4, <2>5 DEF Start
<1>14. ASSUME NEW w \in Workers, StartFails(w) PROVE TypeInv'
  <2>1. pc' \in [Workers -> Steps]
    BY <1>14 DEF StartFails, Go, Steps
  <2>2. HandOK'
    BY <1>14 DEF StartFails, Go, HandOK
  <2> QED  BY <1>14, <2>1, <2>2 DEF StartFails
<1>15. ASSUME NEW w \in Workers, StartResolves(w) PROVE TypeInv'
  <2>1. pc' \in [Workers -> Steps]
    BY <1>15 DEF StartResolves, Go, Steps
  <2>2. HandOK'
    BY <1>15 DEF StartResolves, Go, HandOK
  <2> QED  BY <1>15, <2>1, <2>2 DEF StartResolves
<1>16. ASSUME NEW w \in Workers, StartGuessed(w) PROVE TypeInv'
  <2>1. Newest(Listed, NameNone) \in ExtIds
    BY <1>16, NewestIsMember DEF Listed, ExecIds, ExtIds
  <2>2. found' \in [Workers -> ExtIds]
    BY <1>16, <2>1 DEF StartGuessed
  <2>3. pc' \in [Workers -> Steps]
    BY <1>16 DEF StartGuessed, Go, Steps
  <2>4. HandOK'
    BY <1>16 DEF StartGuessed, Go, HandOK
  <2> QED  BY <1>16, <2>1, <2>2, <2>3, <2>4 DEF StartGuessed
<1>17. ASSUME NEW w \in Workers, StartReplyLost(w) PROVE TypeInv'
  <2>1. found' \in [Workers -> ExtIds]
    BY <1>17 DEF StartReplyLost, ExtIds
  <2>2. pc' \in [Workers -> Steps]
    BY <1>17 DEF StartReplyLost, Go, Steps
  <2>3. HandOK'
    BY <1>17 DEF StartReplyLost, Go, HandOK
  <2> QED  BY <1>17, <2>1, <2>2, <2>3 DEF StartReplyLost
<1>18. ASSUME NEW w \in Workers, Record(w) PROVE TypeInv'
  <2>1. extId' \in [Jobs -> ExtIds]
    BY <1>18, RecordIdType DEF Record
  <2>2. pc' \in [Workers -> Steps]
    BY <1>18 DEF Record, Go, Steps
  <2>3. HandOK'
    BY <1>18 DEF Record, Go, HandOK
  <2> QED  BY <1>18, <2>1, <2>2, <2>3 DEF Record
<1>19. ASSUME NEW w \in Workers, RevertClaim(w) PROVE TypeInv'
  <2>1. status' \in [Jobs -> Statuses]
    BY <1>19 DEF RevertClaim, Statuses
  <2>2. pc' \in [Workers -> Steps]
    BY <1>19 DEF RevertClaim, Go, Steps
  <2>3. HandOK'
    BY <1>19 DEF RevertClaim, Go, HandOK
  <2> QED  BY <1>19, <2>1, <2>2, <2>3 DEF RevertClaim
<1>20. ASSUME NEW w \in Workers, ClearPending(w) PROVE TypeInv'
  <2>1. pending' \in BOOLEAN
    BY <1>20 DEF ClearPending
  <2>2. pc' \in [Workers -> Steps]
    BY <1>20 DEF ClearPending, Go, Steps
  <2>3. HandOK'
    BY <1>20 DEF ClearPending, Go, HandOK
  <2> QED  BY <1>20, <2>1, <2>2, <2>3 DEF ClearPending
<1>21. ASSUME NEW w \in Workers, Return(w) PROVE TypeInv'
  <2>1. leaseOwner' \in Workers \cup {NoWorker} /\ leaseLive' \in BOOLEAN
    BY <1>21 DEF Return, ReleaseLease
  <2>2. hand' \in [Workers -> Message \cup {NoMsg}]
    BY <1>21 DEF Return, Ack
  <2>3. found' \in [Workers -> ExtIds]
    BY <1>21 DEF Return, ExtIds
  <2>4. count' \in [Workers -> Nat]
    BY <1>21 DEF Return
  <2>5. pc' \in [Workers -> Steps]
    BY <1>21 DEF Return, Ack, Go, Steps
  <2>6. HandOK'
    BY <1>21 DEF Return, Ack, Go, HandOK
  <2> QED  BY <1>21, <2>1, <2>2, <2>3, <2>4, <2>5, <2>6 DEF Return
<1>22. ASSUME NEW w \in Workers, Raise(w) PROVE TypeInv'
  <2>1. hand[w] \in Message
    BY <1>22 DEF Raise, HandOK
  <2>2. queue' \in [Message -> Nat]
    BY <1>22, <2>1, BagPut DEF Raise, Put
  <2>3. leaseOwner' \in Workers \cup {NoWorker} /\ leaseLive' \in BOOLEAN
    BY <1>22 DEF Raise, ReleaseLease
  <2>4. hand' \in [Workers -> Message \cup {NoMsg}]
    BY <1>22 DEF Raise, Ack
  <2>5. found' \in [Workers -> ExtIds]
    BY <1>22 DEF Raise, ExtIds
  <2>6. count' \in [Workers -> Nat]
    BY <1>22 DEF Raise
  <2>7. pc' \in [Workers -> Steps]
    BY <1>22 DEF Raise, Ack, Go, Steps
  <2>8. HandOK'
    BY <1>22 DEF Raise, Ack, Go, HandOK
  <2> QED  BY <1>22, <2>1, <2>2, <2>3, <2>4, <2>5, <2>6, <2>7, <2>8 DEF Raise
<1>23. ASSUME NEW w \in Workers, Crash(w) PROVE TypeInv'
  <2>1. queue' \in [Message -> Nat]
    BY <1>23, BagPut DEF Crash
  <2>2. hand' \in [Workers -> Message \cup {NoMsg}]
    BY <1>23 DEF Crash, Ack
  <2>3. found' \in [Workers -> ExtIds]
    BY <1>23 DEF Crash, ExtIds
  <2>4. count' \in [Workers -> Nat]
    BY <1>23 DEF Crash
  <2>5. pc' \in [Workers -> Steps]
    BY <1>23 DEF Crash, Ack, Go, Steps
  <2>6. HandOK'
    BY <1>23 DEF Crash, Ack, Go, HandOK
  <2> QED  BY <1>23, <2>1, <2>2, <2>3, <2>4, <2>5, <2>6 DEF Crash
<1>24. ASSUME Poison PROVE TypeInv'
  <2>1. \E m \in Message : queue[m] > 0 /\ queue' = [queue EXCEPT ![m] = @ - 1] /\ MarkFailed(m.job)
    BY <1>24 DEF Poison
  <2>2. queue' \in [Message -> Nat]
    BY <1>24, <2>1, BagTake
  <2>3. status' \in [Jobs -> Statuses]
    BY <1>24, <2>1, MarkFailedType
  <2> QED  BY <1>24, <2>1, <2>2, <2>3 DEF Poison, HandOK
<1>25. ASSUME NEW j \in Jobs, Duplicate(j) PROVE TypeInv'
  <2>1. Fresh(j) \in Message
    BY <1>25, DispatchConstants DEF Fresh, Message
  <2>2. queue' \in [Message -> Nat]
    BY <1>25, <2>1, BagPut DEF Duplicate, Put
  <2>3. copies' \in 0..MaxCopies
    BY <1>25, DispatchConstants DEF Duplicate
  <2> QED  BY <1>25, <2>1, <2>2, <2>3 DEF Duplicate, HandOK
<1>26. ASSUME LeaseExpires PROVE TypeInv'
  BY <1>26 DEF LeaseExpires, HandOK
<1>27. ASSUME GraceExpires PROVE TypeInv'
  BY <1>27 DEF GraceExpires, HandOK
<1>28. ASSUME ToggleDispatch PROVE TypeInv'
  BY <1>28 DEF ToggleDispatch, HandOK
<1>29. ASSUME NEW e \in ExecIds, Appears(e) PROVE TypeInv'
  <2>1. execs' \in Seq(Exec)
    BY <1>29, PhaseExec DEF Appears, Phases
  <2> QED  BY <1>29, <2>1 DEF Appears, HandOK
<1>30. ASSUME NEW e \in ExecIds, Boots(e) PROVE TypeInv'
  <2>1. execs' \in Seq(Exec)
    BY <1>30, PhaseExec DEF Boots, Phases
  <2>2. status' \in [Jobs -> Statuses]
    BY <1>30 DEF Boots, Statuses
  <2> QED  BY <1>30, <2>1, <2>2 DEF Boots, HandOK
<1>31. ASSUME NEW e \in ExecIds, Ends(e) PROVE TypeInv'
  <2>1. execs' \in Seq(Exec)
    BY <1>31, PhaseExec DEF Ends, Phases
  <2>2. status' \in [Jobs -> Statuses]
    BY <1>31 DEF Ends, Statuses, Terminal
  <2> QED  BY <1>31, <2>1, <2>2 DEF Ends, HandOK
<1>32. ASSUME NEW e \in ExecIds, Dies(e) PROVE TypeInv'
  <2>1. execs' \in Seq(Exec)
    BY <1>32, PhaseExec DEF Dies, Phases
  <2> QED  BY <1>32, <2>1 DEF Dies, HandOK
<1>33. CASE UNCHANGED vars  BY <1>33 DEF vars, HandOK
<1> QED
  BY <1>1, <1>2, <1>3, <1>4, <1>5, <1>6, <1>7, <1>8, <1>9, <1>10, <1>11, <1>12,
        <1>13, <1>14, <1>15, <1>16, <1>17, <1>18, <1>19, <1>20, <1>21, <1>22,
        <1>23, <1>24, <1>25, <1>26, <1>27, <1>28, <1>29, <1>30, <1>31, <1>32, <1>33
  DEF Next, Handler, Container

\* Every variable keeps its type for every set of jobs and workers, every bound
\* and every choice of faults: a record id is a number or 'None', the queue is a
\* bag of messages within their defer and dequeue limits.
THEOREM TypeCorrect == Spec => []TypeOK
<1>1. TypeInv => TypeOK  BY DEF TypeInv
<1> QED  BY TypeInit, TypeStep, <1>1, PTL DEF Spec

-----------------------------------------------------------------------------
(* No double start. A start call that was submitted and then raised is the *)
(* one thing that breaks it, and the theorem excludes it by name.          *)

\* Steps between a worker's claim and its start call, or the undoing of the claim.
Starting == {"mark", "start", "revert"}

\* While a worker is starting a job nobody else is, and the job has no execution;
\* a job that has one is never queued again.
StartInv ==
  /\ \A w \in Workers : pc[w] \in Starting =>
       /\ status[JobOf(w)] # "queued"
       /\ \A e \in ExecIds : execs[e].job # JobOf(w)
  /\ \A v, w \in Workers :
       pc[v] \in Starting /\ pc[w] \in Starting /\ JobOf(v) = JobOf(w) => v = w
  /\ \A e \in ExecIds : status[execs[e].job] # "queued"
  /\ NoDoubleStart

\* A step that queues no job, starts no execution and begins no start.
Quiet ==
  /\ ExecIds' = ExecIds
  /\ \A e \in ExecIds : execs'[e].job = execs[e].job
  /\ \A j \in Jobs : status'[j] = "queued" => status[j] = "queued"
  /\ \A w \in Workers : pc'[w] \in Starting => pc[w] \in Starting /\ hand'[w] = hand[w]

LEMMA StarterHoldsJob ==
  ASSUME TypeInv, NEW w \in Workers, pc[w] \in Starting
  PROVE  JobOf(w) \in Jobs
BY DEF TypeInv, HandOK, Starting, JobOf, Message

LEMMA ExecHasJob ==
  ASSUME TypeInv, NEW e \in ExecIds PROVE execs[e].job \in Jobs
<1>1. execs \in Seq(Exec)  BY DEF TypeInv, TypeOK, Exec
<1>2. execs[e] \in Exec  BY <1>1 DEF ExecIds
<1> QED  BY <1>2 DEF Exec

LEMMA QuietStep == TypeInv /\ StartInv /\ Quiet => StartInv'
<1> SUFFICES ASSUME TypeInv, StartInv, Quiet PROVE StartInv'  OBVIOUS
<1>1. ASSUME NEW w \in Workers, pc'[w] \in Starting
      PROVE  /\ pc[w] \in Starting /\ JobOf(w)' = JobOf(w) /\ JobOf(w) \in Jobs
  BY <1>1, StarterHoldsJob DEF Quiet, JobOf
<1>2. ASSUME NEW e \in ExecIds' PROVE e \in ExecIds /\ execs'[e].job = execs[e].job
  BY <1>2 DEF Quiet
<1>3. NoDoubleStart'  BY <1>2 DEF StartInv, NoDoubleStart
<1>4. \A e \in ExecIds' : status'[execs'[e].job] # "queued"
  BY <1>2, ExecHasJob DEF StartInv, Quiet
<1>5. \A w \in Workers : pc'[w] \in Starting =>
        /\ status'[JobOf(w)'] # "queued"
        /\ \A e \in ExecIds' : execs'[e].job # JobOf(w)'
  BY <1>1, <1>2 DEF StartInv, Quiet
<1>6. \A v, w \in Workers :
        pc'[v] \in Starting /\ pc'[w] \in Starting /\ JobOf(v)' = JobOf(w)' => v = w
  BY <1>1 DEF StartInv
<1> QED  BY <1>3, <1>4, <1>5, <1>6 DEF StartInv

LEMMA QuietActions ==
  TypeInv /\ [Next]_vars
    => \/ Quiet
       \/ \E w \in Workers : Claim(w) \/ Start(w) \/ StartReplyLost(w) \/ RevertClaim(w)
<1> SUFFICES ASSUME TypeInv, [Next]_vars
             PROVE  \/ Quiet
                    \/ \E w \in Workers : \/ Claim(w) \/ Start(w)
                                         \/ StartReplyLost(w) \/ RevertClaim(w)
  OBVIOUS
<1> USE DEF TypeInv, TypeOK, Exec, Starting, jobVars, leaseVars, queueVars, workerVars
<1>1. ASSUME NEW w \in Workers, Receive(w) PROVE Quiet
  BY <1>1 DEF Receive, Go, Quiet, ExecIds
<1>2. ASSUME NEW w \in Workers, ReceivePaused(w) PROVE Quiet
  BY <1>2 DEF ReceivePaused, Quiet, ExecIds
<1>3. ASSUME NEW w \in Workers, Acquire(w) PROVE Quiet
  BY <1>3 DEF Acquire, Go, Quiet, ExecIds
<1>4. ASSUME NEW w \in Workers, AcquireBusy(w) PROVE Quiet
  BY <1>4 DEF AcquireBusy, DeferJob, Ack, MarkFailed, Go, Quiet, ExecIds
<1>5. ASSUME NEW w \in Workers, AcquireError(w) PROVE Quiet
  BY <1>5 DEF AcquireError, MarkFailed, Ack, Go, Quiet, ExecIds
<1>6. ASSUME NEW w \in Workers, ReadRow(w) PROVE Quiet
  BY <1>6 DEF ReadRow, Go, Quiet, ExecIds
<1>7. ASSUME NEW w \in Workers, Recover(w) PROVE Quiet
  BY <1>7 DEF Recover, Go, Quiet, ExecIds
<1>8. ASSUME NEW w \in Workers, CountActive(w) PROVE Quiet
  BY <1>8 DEF CountActive, Go, Quiet, ExecIds
<1>9. ASSUME NEW w \in Workers, CheckCap(w) PROVE Quiet
  BY <1>9 DEF CheckCap, DeferJob, Ack, MarkFailed, Go, Quiet, ExecIds
<1>10. ASSUME NEW w \in Workers, ApiRaises(w) PROVE Quiet
  BY <1>10 DEF ApiRaises, Go, Quiet, ExecIds
<1>11. ASSUME NEW w \in Workers, Mark(w) PROVE Quiet
  BY <1>11 DEF Mark, Go, Quiet, ExecIds
<1>12. ASSUME NEW w \in Workers, StartFails(w) PROVE Quiet
  BY <1>12 DEF StartFails, Go, Quiet, ExecIds
<1>13. ASSUME NEW w \in Workers, StartResolves(w) PROVE Quiet
  BY <1>13 DEF StartResolves, Go, Quiet, ExecIds
<1>14. ASSUME NEW w \in Workers, StartGuessed(w) PROVE Quiet
  BY <1>14 DEF StartGuessed, Go, Quiet, ExecIds
<1>15. ASSUME NEW w \in Workers, Record(w) PROVE Quiet
  BY <1>15 DEF Record, Go, Quiet, ExecIds
<1>16. ASSUME NEW w \in Workers, ClearPending(w) PROVE Quiet
  BY <1>16 DEF ClearPending, Go, Quiet, ExecIds
<1>17. ASSUME NEW w \in Workers, Return(w) PROVE Quiet
  BY <1>17 DEF Return, Ack, Go, Quiet, ExecIds
<1>18. ASSUME NEW w \in Workers, Raise(w) PROVE Quiet
  BY <1>18 DEF Raise, Ack, Go, Quiet, ExecIds
<1>19. ASSUME NEW w \in Workers, Crash(w) PROVE Quiet
  BY <1>19 DEF Crash, Ack, Go, Quiet, ExecIds
<1>20. ASSUME Poison PROVE Quiet
  BY <1>20 DEF Poison, MarkFailed, Quiet, ExecIds
<1>21. ASSUME LeaseExpires PROVE Quiet
  BY <1>21 DEF LeaseExpires, Quiet, ExecIds
<1>22. ASSUME GraceExpires PROVE Quiet
  BY <1>22 DEF GraceExpires, Quiet, ExecIds
<1>23. ASSUME ToggleDispatch PROVE Quiet
  BY <1>23 DEF ToggleDispatch, Quiet, ExecIds
<1>24. ASSUME NEW j \in Jobs, Duplicate(j) PROVE Quiet
  BY <1>24 DEF Duplicate, Quiet, ExecIds
<1>25. ASSUME NEW e \in ExecIds, Appears(e) PROVE Quiet
  <2>1. /\ Len(execs') = Len(execs)
        /\ \A f \in ExecIds : execs'[f].job = execs[f].job
    BY <1>25, PhaseExec DEF Appears, Phases
  <2> QED  BY <1>25, <2>1 DEF Appears, Phases, Quiet, ExecIds
<1>26. ASSUME NEW e \in ExecIds, Boots(e) PROVE Quiet
  <2>1. /\ Len(execs') = Len(execs)
        /\ \A f \in ExecIds : execs'[f].job = execs[f].job
    BY <1>26, PhaseExec DEF Boots, Phases
  <2> QED  BY <1>26, <2>1 DEF Boots, Phases, Quiet, ExecIds
<1>27. ASSUME NEW e \in ExecIds, Ends(e) PROVE Quiet
  <2>1. /\ Len(execs') = Len(execs)
        /\ \A f \in ExecIds : execs'[f].job = execs[f].job
    BY <1>27, PhaseExec DEF Ends, Phases
  <2> QED  BY <1>27, <2>1 DEF Ends, Phases, Terminal, Quiet, ExecIds
<1>28. ASSUME NEW e \in ExecIds, Dies(e) PROVE Quiet
  <2>1. /\ Len(execs') = Len(execs)
        /\ \A f \in ExecIds : execs'[f].job = execs[f].job
    BY <1>28, PhaseExec DEF Dies, Phases
  <2> QED  BY <1>28, <2>1 DEF Dies, Phases, Quiet, ExecIds
<1>29. CASE UNCHANGED vars  BY <1>29 DEF vars, Quiet, ExecIds
<1> QED
  BY <1>1, <1>2, <1>3, <1>4, <1>5, <1>6, <1>7, <1>8, <1>9, <1>10,
     <1>11, <1>12, <1>13, <1>14, <1>15, <1>16, <1>17, <1>18, <1>19, <1>20,
     <1>21, <1>22, <1>23, <1>24, <1>25, <1>26, <1>27, <1>28, <1>29
  DEF Next, Handler, Container

LEMMA StartStep ==
  ASSUME "replyLost" \notin Faults, TypeInv, StartInv, [Next]_vars
  PROVE  StartInv'
<1>1. CASE Quiet  BY <1>1, QuietStep
<1>2. ASSUME NEW w \in Workers, Claim(w) PROVE StartInv'
  <2> DEFINE j == JobOf(w)
  <2>1. j \in Jobs /\ execs' = execs /\ hand' = hand /\ pc[w] = "claim"
    BY <1>2 DEF Claim, TypeInv, HandOK, JobOf, Message, workerVars
  <2>2. CASE status[j] # "queued"
    <3>1. Quiet
      BY <1>2, <2>1, <2>2 DEF Claim, Go, Quiet, TypeInv, TypeOK, ExecIds, Starting
    <3> QED  BY <3>1, QuietStep
  <2>3. CASE status[j] = "queued"
    <3>1. /\ status' = [status EXCEPT ![j] = "dispatching"]
          /\ pc' = [pc EXCEPT ![w] = "mark"]
      BY <1>2, <2>3 DEF Claim, Go
    <3>2. \A e \in ExecIds : execs[e].job # j  BY <2>3 DEF StartInv
    <3>3. \A v \in Workers \ {w} : pc'[v] \in Starting => pc[v] \in Starting /\ JobOf(v) # j
      BY <2>3, <3>1 DEF StartInv, TypeInv, TypeOK
    <3>4. \A v \in Workers : JobOf(v)' = JobOf(v)  BY <2>1 DEF JobOf
    <3>5. ExecIds' = ExecIds  BY <2>1 DEF ExecIds
    <3>6. \A i \in Jobs : status'[i] = "queued" => status[i] = "queued" /\ i # j
      BY <2>1, <3>1 DEF TypeInv, TypeOK
    <3>7. \A v \in Workers : pc'[v] \in Starting => JobOf(v) \in Jobs
      BY <2>1, <3>3, StarterHoldsJob
    <3>8. NoDoubleStart'  BY <2>1, <3>5 DEF StartInv, NoDoubleStart
    <3>9. \A e \in ExecIds' : status'[execs'[e].job] # "queued"
      BY <2>1, <3>5, <3>6, ExecHasJob DEF StartInv
    <3>10. \A v \in Workers : pc'[v] \in Starting =>
             /\ status'[JobOf(v)'] # "queued"
             /\ \A e \in ExecIds' : execs'[e].job # JobOf(v)'
      BY <2>1, <3>2, <3>3, <3>4, <3>5, <3>6, <3>7 DEF StartInv
    <3>11. \A u, v \in Workers :
             pc'[u] \in Starting /\ pc'[v] \in Starting /\ JobOf(u)' = JobOf(v)' => u = v
      BY <3>3, <3>4 DEF StartInv
    <3> QED  BY <3>8, <3>9, <3>10, <3>11 DEF StartInv
  <2> QED  BY <2>2, <2>3
<1>3. ASSUME NEW w \in Workers, Start(w) PROVE StartInv'
  <2> DEFINE j == JobOf(w)
  <2>1. /\ pc[w] = "start" /\ pc' = [pc EXCEPT ![w] = "started"]
        /\ status' = status /\ hand' = hand
        /\ execs' = Append(execs, [job |-> j, phase |-> "hidden"])
    BY <1>3 DEF Start, Go, jobVars
  <2>2. pc[w] \in Starting /\ j \in Jobs
    BY <2>1, StarterHoldsJob DEF Starting
  <2> DEFINE n == Len(execs)
  <2>3. /\ n \in Nat /\ ExecIds = 1..n /\ ExecIds' = 1..(n + 1)
        /\ \A e \in 1..n : execs'[e] = execs[e]
        /\ execs'[n + 1].job = j
    BY <2>1, <2>2, AppendExec DEF TypeInv, TypeOK, Exec, ExecIds
  <2>4. /\ status[j] # "queued" /\ \A e \in ExecIds : execs[e].job # j
    BY <2>2 DEF StartInv
  <2>5. \A v \in Workers :
          pc'[v] \in Starting => pc[v] \in Starting /\ JobOf(v)' = JobOf(v) /\ JobOf(v) # j
    BY <2>1, <2>2 DEF StartInv, TypeInv, TypeOK, Starting, JobOf
  <2> HIDE DEF n, j
  <2>6. \A e \in ExecIds' : e \in ExecIds \/ e = n + 1  BY <2>3
  <2>7. NoDoubleStart'  BY <2>3, <2>4, <2>6 DEF StartInv, NoDoubleStart
  <2>8. \A e \in ExecIds' : status'[execs'[e].job] # "queued"
    BY <2>1, <2>3, <2>4, <2>6 DEF StartInv
  <2>9. \A v \in Workers : pc'[v] \in Starting =>
          /\ status'[JobOf(v)'] # "queued"
          /\ \A e \in ExecIds' : execs'[e].job # JobOf(v)'
    <3> SUFFICES ASSUME NEW v \in Workers, pc'[v] \in Starting
                 PROVE  /\ status'[JobOf(v)'] # "queued"
                        /\ \A e \in ExecIds' : execs'[e].job # JobOf(v)'
      OBVIOUS
    <3>1. /\ status[JobOf(v)] # "queued" /\ \A e \in ExecIds : execs[e].job # JobOf(v)
          /\ JobOf(v)' = JobOf(v) /\ JobOf(v) # j
      BY <2>5 DEF StartInv
    <3> QED  BY <2>1, <2>3, <2>6, <3>1
  <2>10. \A u, v \in Workers :
           pc'[u] \in Starting /\ pc'[v] \in Starting /\ JobOf(u)' = JobOf(v)' => u = v
    BY <2>5 DEF StartInv
  <2> QED  BY <2>7, <2>8, <2>9, <2>10 DEF StartInv
<1>4. ASSUME NEW w \in Workers, StartReplyLost(w) PROVE FALSE
  BY <1>4 DEF StartReplyLost
<1>5. ASSUME NEW w \in Workers, RevertClaim(w) PROVE StartInv'
  <2> DEFINE j == JobOf(w)
  <2>1. /\ pc[w] = "revert" /\ pc' = [pc EXCEPT ![w] = "unmark"]
        /\ execs' = execs /\ hand' = hand
        /\ status' = [status EXCEPT ![j] = IF @ = "dispatching" THEN "queued" ELSE @]
    BY <1>5 DEF RevertClaim, Go
  <2>2. pc[w] \in Starting /\ j \in Jobs
    BY <2>1, StarterHoldsJob DEF Starting
  <2>3. \A e \in ExecIds : execs[e].job # j  BY <2>2 DEF StartInv
  <2>4. \A v \in Workers : pc'[v] \in Starting =>
          /\ pc[v] \in Starting /\ JobOf(v)' = JobOf(v)
          /\ JobOf(v) # j /\ JobOf(v) \in Jobs
    BY <2>1, <2>2, StarterHoldsJob DEF StartInv, TypeInv, TypeOK, Starting, JobOf
  <2>5. ExecIds' = ExecIds  BY <2>1 DEF ExecIds
  <2>6. \A i \in Jobs : i # j => status'[i] = status[i]
    BY <2>1 DEF TypeInv, TypeOK
  <2> HIDE DEF j
  <2>7. NoDoubleStart'  BY <2>1, <2>5 DEF StartInv, NoDoubleStart
  <2>8. \A e \in ExecIds' : status'[execs'[e].job] # "queued"
    BY <2>1, <2>3, <2>5, <2>6, ExecHasJob DEF StartInv
  <2>9. \A v \in Workers : pc'[v] \in Starting =>
          /\ status'[JobOf(v)'] # "queued"
          /\ \A e \in ExecIds' : execs'[e].job # JobOf(v)'
    BY <2>1, <2>4, <2>5, <2>6 DEF StartInv
  <2>10. \A u, v \in Workers :
           pc'[u] \in Starting /\ pc'[v] \in Starting /\ JobOf(u)' = JobOf(v)' => u = v
    BY <2>4 DEF StartInv
  <2> QED  BY <2>7, <2>8, <2>9, <2>10 DEF StartInv
<1> QED  BY <1>1, <1>2, <1>3, <1>4, <1>5, QuietActions

\* However messages are redelivered, duplicated or reordered, whatever crashes,
\* stalls or loses its lease, and for any number of jobs, workers and any cap:
\* the dispatcher starts at most one execution per job, as long as a start call
\* that raises has started nothing (the comment on the except clause of
\* process_inference_job).
THEOREM AtMostOneStart == "replyLost" \notin Faults => (Spec => []NoDoubleStart)
<1> SUFFICES ASSUME "replyLost" \notin Faults PROVE Spec => []NoDoubleStart  OBVIOUS
<1>1. Init => StartInv
  BY DEF Init, StartInv, NoDoubleStart, ExecIds, Starting
<1>2. TypeInv /\ StartInv /\ [Next]_vars => StartInv'  BY StartStep
<1>3. StartInv => NoDoubleStart  BY DEF StartInv
<1> QED  BY <1>1, <1>2, <1>3, TypeInit, TypeStep, PTL DEF Spec

-----------------------------------------------------------------------------
(* What a row says of its execution. A worker names an execution when it   *)
(* starts it or finds it in the list of the job's own, and records what it *)
(* named; only a guess takes another job's.                                *)

\* Steps in which a worker has an execution to record.
Naming == {"started", "record", "recover"}

\* A recorded execution, and one to be recorded, is the job's own.
OwnedInv ==
  /\ OwnExecution
  /\ \A w \in Workers : pc[w] \in Naming =>
       found[w] \in ExecIds /\ execs[found[w]].job = JobOf(w)

\* A job has an execution when one was recorded for it or is to be.
NamedInv ==
  /\ \A j \in Jobs : extId[j] # 0 => \E e \in ExecIds : execs[e].job = j
  /\ \A w \in Workers : pc[w] \in Naming => \E e \in ExecIds : execs[e].job = JobOf(w)

\* No execution is taken off the list, none is recorded, and no worker names one anew,
\* unless it guesses.
NamesStay ==
  /\ \A e \in ExecIds : e \in ExecIds' /\ execs'[e].job = execs[e].job
  /\ extId' = extId
  /\ \A w \in Workers : pc'[w] \in Naming =>
       /\ pc[w] \in Naming /\ hand'[w] = hand[w]
       /\ found'[w] = found[w] \/ "lroFails" \in Faults

LEMMA OwnedStays ==
  ASSUME "lroFails" \notin Faults, OwnedInv, NamesStay PROVE OwnedInv'
<1>1. OwnExecution'
  BY DEF OwnedInv, NamesStay, OwnExecution
<1>2. ASSUME NEW w \in Workers, pc'[w] \in Naming
      PROVE  found'[w] \in ExecIds' /\ execs'[found'[w]].job = JobOf(w)'
  BY <1>2 DEF OwnedInv, NamesStay, JobOf
<1> QED
  BY <1>1, <1>2 DEF OwnedInv

LEMMA NamedStays ==
  ASSUME NamedInv, NamesStay PROVE NamedInv'
<1>1. ASSUME NEW j \in Jobs, extId'[j] # 0 PROVE \E e \in ExecIds' : execs'[e].job = j
  BY <1>1 DEF NamedInv, NamesStay
<1>2. ASSUME NEW w \in Workers, pc'[w] \in Naming
      PROVE  \E e \in ExecIds' : execs'[e].job = JobOf(w)'
  BY <1>2 DEF NamedInv, NamesStay, JobOf
<1> QED
  BY <1>1, <1>2 DEF NamedInv

LEMMA NameActions ==
  ASSUME TypeInv, [Next]_vars
  PROVE  \/ NamesStay
         \/ \E w \in Workers : ReadRow(w) \/ Recover(w) \/ Start(w) \/ Record(w)
<1> USE DEF TypeInv, TypeOK, Exec, Naming, jobVars, leaseVars, queueVars, workerVars
<1>1. ASSUME NEW w \in Workers, Receive(w) PROVE NamesStay
  BY <1>1 DEF Receive, Go, NamesStay, ExecIds
<1>2. ASSUME NEW w \in Workers, ReceivePaused(w) PROVE NamesStay
  BY <1>2 DEF ReceivePaused, NamesStay, ExecIds
<1>3. ASSUME NEW w \in Workers, Acquire(w) PROVE NamesStay
  BY <1>3 DEF Acquire, Go, NamesStay, ExecIds
<1>4. ASSUME NEW w \in Workers, AcquireBusy(w) PROVE NamesStay
  BY <1>4 DEF AcquireBusy, DeferJob, Ack, Go, NamesStay, ExecIds
<1>5. ASSUME NEW w \in Workers, AcquireError(w) PROVE NamesStay
  BY <1>5 DEF AcquireError, Ack, Go, NamesStay, ExecIds
<1>6. ASSUME NEW w \in Workers, CountActive(w) PROVE NamesStay
  BY <1>6 DEF CountActive, Go, NamesStay, ExecIds
<1>7. ASSUME NEW w \in Workers, CheckCap(w) PROVE NamesStay
  BY <1>7 DEF CheckCap, DeferJob, Ack, Go, NamesStay, ExecIds
<1>8. ASSUME NEW w \in Workers, ApiRaises(w) PROVE NamesStay
  BY <1>8 DEF ApiRaises, Go, NamesStay, ExecIds
<1>9. ASSUME NEW w \in Workers, Claim(w) PROVE NamesStay
  BY <1>9 DEF Claim, Go, NamesStay, ExecIds
<1>10. ASSUME NEW w \in Workers, Mark(w) PROVE NamesStay
  BY <1>10 DEF Mark, Go, NamesStay, ExecIds
<1>11. ASSUME NEW w \in Workers, StartFails(w) PROVE NamesStay
  BY <1>11 DEF StartFails, Go, NamesStay, ExecIds
<1>12. ASSUME NEW w \in Workers, StartResolves(w) PROVE NamesStay
  BY <1>12 DEF StartResolves, Go, NamesStay, ExecIds
<1>13. ASSUME NEW w \in Workers, StartGuessed(w) PROVE NamesStay
  BY <1>13 DEF StartGuessed, Go, NamesStay, ExecIds
<1>14. ASSUME NEW w \in Workers, StartReplyLost(w) PROVE NamesStay
  BY <1>14 DEF StartReplyLost, Go, NamesStay, ExecIds
<1>15. ASSUME NEW w \in Workers, RevertClaim(w) PROVE NamesStay
  BY <1>15 DEF RevertClaim, Go, NamesStay, ExecIds
<1>16. ASSUME NEW w \in Workers, ClearPending(w) PROVE NamesStay
  BY <1>16 DEF ClearPending, Go, NamesStay, ExecIds
<1>17. ASSUME NEW w \in Workers, Return(w) PROVE NamesStay
  BY <1>17 DEF Return, Ack, Go, NamesStay, ExecIds
<1>18. ASSUME NEW w \in Workers, Raise(w) PROVE NamesStay
  BY <1>18 DEF Raise, Ack, Go, NamesStay, ExecIds
<1>19. ASSUME NEW w \in Workers, Crash(w) PROVE NamesStay
  BY <1>19 DEF Crash, Ack, Go, NamesStay, ExecIds
<1>20. CASE Poison \/ LeaseExpires \/ GraceExpires \/ ToggleDispatch \/ UNCHANGED vars
  BY <1>20 DEF Poison, LeaseExpires, GraceExpires, ToggleDispatch, vars, NamesStay, ExecIds
<1>21. ASSUME NEW j \in Jobs, Duplicate(j) PROVE NamesStay
  BY <1>21 DEF Duplicate, NamesStay, ExecIds
<1>22. ASSUME NEW e \in ExecIds, Container(e) PROVE NamesStay
  <2>1. PICK p \in Phases : Phase(e, p)
    BY <1>22 DEF Container, Appears, Boots, Ends, Dies, Phases
  <2>2. /\ Len(execs') = Len(execs)
        /\ \A f \in ExecIds : execs'[f].job = execs[f].job
    BY <2>1, PhaseExec
  <2>3. extId' = extId /\ pc' = pc /\ hand' = hand /\ found' = found
    BY <1>22 DEF Container, Appears, Boots, Ends, Dies
  <2> QED
    BY <2>2, <2>3 DEF NamesStay, ExecIds
<1> QED
  BY <1>1, <1>2, <1>3, <1>4, <1>5, <1>6, <1>7, <1>8, <1>9, <1>10, <1>11, <1>12, <1>13,
     <1>14, <1>15, <1>16, <1>17, <1>18, <1>19, <1>20, <1>21, <1>22
  DEF Next, Handler

\* A message is read: the execution found, if any, is the job's.
LEMMA ReadRowNames ==
  ASSUME TypeInv, NEW w \in Workers, ReadRow(w)
  PROVE  /\ UNCHANGED <<extId, execs, hand>>
         /\ \A v \in Workers \ {w} : pc'[v] = pc[v] /\ found'[v] = found[v]
         /\ pc'[w] \in Naming => found'[w] \in ExecIds /\ execs[found'[w]].job = JobOf(w)
<1> DEFINE mine == {e \in Listed : execs[e].job = JobOf(w)}
           cand == Newest(mine, 0)
           gap == status[JobOf(w)] = "dispatching" /\ extId[JobOf(w)] = 0
<1>1. cand \in mine \cup {0}
  BY NewestIsMember
<1>2. \A e \in mine : e \in ExecIds /\ execs[e].job = JobOf(w)
  BY DEF Listed
<1>3. /\ found' = [found EXCEPT ![w] = IF gap THEN cand ELSE 0]
      /\ Go(w, IF gap THEN IF cand # 0 THEN "recover" ELSE "release"
               ELSE IF extId[JobOf(w)] # 0 \/ status[JobOf(w)] # "queued" THEN "clear"
               ELSE "count")
  BY DEF ReadRow
<1>4. UNCHANGED <<extId, execs, hand>>
  BY DEF ReadRow, jobVars
<1> HIDE DEF mine, cand, gap
<1>5. \A v \in Workers \ {w} : pc'[v] = pc[v] /\ found'[v] = found[v]
  BY <1>3 DEF Go, TypeInv, TypeOK
<1>6. pc'[w] \in Naming => gap /\ cand # 0 /\ found'[w] = cand
  BY <1>3 DEF Go, Naming, TypeInv, TypeOK
<1> QED
  BY <1>1, <1>2, <1>4, <1>5, <1>6

\* An execution is recorded, into an empty slot.
LEMMA RecordNames ==
  ASSUME TypeInv, NEW w \in Workers, Recover(w) \/ Record(w)
  PROVE  /\ UNCHANGED <<execs, hand, found>> /\ pc[w] \in Naming /\ pc'[w] = "clear"
         /\ \A v \in Workers \ {w} : pc'[v] = pc[v]
         /\ \A j \in Jobs : extId'[j] = extId[j] \/ (j = JobOf(w) /\ extId'[j] = found[w])
BY DEF Recover, Record, RecordId, Go, Naming, TypeInv, TypeOK

\* An execution is started.
LEMMA StartNames ==
  ASSUME TypeInv, NEW w \in Workers, Start(w)
  PROVE  /\ UNCHANGED <<extId, hand>> /\ found'[w] \in ExecIds' /\ execs'[found'[w]].job = JobOf(w)
         /\ \A v \in Workers \ {w} : pc'[v] = pc[v] /\ found'[v] = found[v]
         /\ \A e \in ExecIds : e \in ExecIds' /\ execs'[e] = execs[e]
<1>1. JobOf(w) \in Jobs
  BY DEF Start, TypeInv, HandOK, Message, JobOf
<1>2. execs' = Append(execs, [job |-> JobOf(w), phase |-> "hidden"])
      /\ found' = [found EXCEPT ![w] = Len(execs) + 1] /\ UNCHANGED <<extId, hand>>
      /\ pc' = [pc EXCEPT ![w] = "started"]
  BY DEF Start, Go, jobVars
<1>3. /\ Len(execs) \in Nat /\ Len(execs') = Len(execs) + 1
      /\ \A e \in ExecIds : execs'[e] = execs[e]
      /\ execs'[Len(execs) + 1].job = JobOf(w)
  BY <1>1, <1>2, AppendExec DEF TypeInv, TypeOK, Exec, ExecIds
<1>4. /\ found'[w] = Len(execs) + 1
      /\ \A v \in Workers \ {w} : pc'[v] = pc[v] /\ found'[v] = found[v]
  BY <1>2 DEF TypeInv, TypeOK
<1>5. Len(execs) + 1 \in ExecIds' /\ \A e \in ExecIds : e \in ExecIds'
  BY <1>3 DEF ExecIds
<1> QED
  BY <1>2, <1>3, <1>4, <1>5

LEMMA OwnedStep ==
  ASSUME "lroFails" \notin Faults, TypeInv, OwnedInv, [Next]_vars
  PROVE  OwnedInv'
<1>1. CASE NamesStay
  BY <1>1, OwnedStays
<1>2. ASSUME NEW w \in Workers, ReadRow(w) PROVE OwnedInv'
  <2>1. ExecIds' = ExecIds /\ \A v \in Workers : JobOf(v)' = JobOf(v)
    BY <1>2, ReadRowNames DEF ExecIds, JobOf
  <2>2. OwnExecution'
    BY <1>2, <2>1, ReadRowNames DEF OwnedInv, OwnExecution
  <2>3. ASSUME NEW v \in Workers, pc'[v] \in Naming
        PROVE  found'[v] \in ExecIds' /\ execs'[found'[v]].job = JobOf(v)'
    BY <1>2, <2>1, <2>3, ReadRowNames DEF OwnedInv
  <2> QED
    BY <2>2, <2>3 DEF OwnedInv
<1>3. ASSUME NEW w \in Workers, Recover(w) \/ Record(w) PROVE OwnedInv'
  <2>1. ExecIds' = ExecIds /\ \A v \in Workers : JobOf(v)' = JobOf(v)
    BY <1>3, RecordNames DEF ExecIds, JobOf
  <2>2. OwnExecution'
    BY <1>3, <2>1, RecordNames DEF OwnedInv, OwnExecution
  <2>3. ASSUME NEW v \in Workers, pc'[v] \in Naming
        PROVE  found'[v] \in ExecIds' /\ execs'[found'[v]].job = JobOf(v)'
    BY <1>3, <2>1, <2>3, RecordNames DEF OwnedInv, Naming
  <2> QED
    BY <2>2, <2>3 DEF OwnedInv
<1>4. ASSUME NEW w \in Workers, Start(w) PROVE OwnedInv'
  <2>1. \A v \in Workers : JobOf(v)' = JobOf(v)
    BY <1>4, StartNames DEF JobOf
  <2>2. OwnExecution'
    BY <1>4, StartNames DEF OwnedInv, OwnExecution
  <2>3. ASSUME NEW v \in Workers, pc'[v] \in Naming
        PROVE  found'[v] \in ExecIds' /\ execs'[found'[v]].job = JobOf(v)'
    BY <1>4, <2>1, <2>3, StartNames DEF OwnedInv
  <2> QED
    BY <2>2, <2>3 DEF OwnedInv
<1> QED
  BY <1>1, <1>2, <1>3, <1>4, NameActions

\* As long as the poller of a start does not raise (its fallback takes the newest
\* execution of any job for this one), the execution id persisted on a row is that of an
\* execution of that very job, for any number of jobs and workers, whatever dies, is
\* delivered twice, stalls, or loses its lease or the reply of a start.
THEOREM RowsNameTheirOwn == "lroFails" \notin Faults => (Spec => []OwnExecution)
<1> SUFFICES ASSUME "lroFails" \notin Faults PROVE Spec => []OwnExecution
  OBVIOUS
<1>1. Init => OwnedInv
  BY DEF Init, OwnedInv, OwnExecution, Naming
<1>2. TypeInv /\ OwnedInv /\ [Next]_vars => OwnedInv'
  BY OwnedStep
<1>3. OwnedInv => OwnExecution
  BY DEF OwnedInv
<1> QED
  BY <1>1, <1>2, <1>3, TypeInit, TypeStep, PTL DEF Spec

LEMMA NamedStep ==
  ASSUME TypeInv, NamedInv, [Next]_vars
  PROVE  NamedInv'
<1>1. CASE NamesStay
  BY <1>1, NamedStays
<1>2. ASSUME NEW w \in Workers, ReadRow(w) PROVE NamedInv'
  <2>1. ExecIds' = ExecIds /\ \A v \in Workers : JobOf(v)' = JobOf(v)
    BY <1>2, ReadRowNames DEF ExecIds, JobOf
  <2>2. \A j \in Jobs : extId'[j] # 0 => \E e \in ExecIds' : execs'[e].job = j
    BY <1>2, <2>1, ReadRowNames DEF NamedInv
  <2>3. ASSUME NEW v \in Workers, pc'[v] \in Naming
        PROVE  \E e \in ExecIds' : execs'[e].job = JobOf(v)'
    BY <1>2, <2>1, <2>3, ReadRowNames DEF NamedInv
  <2> QED
    BY <2>2, <2>3 DEF NamedInv
<1>3. ASSUME NEW w \in Workers, Recover(w) \/ Record(w) PROVE NamedInv'
  <2>1. ExecIds' = ExecIds /\ \A v \in Workers : JobOf(v)' = JobOf(v)
    BY <1>3, RecordNames DEF ExecIds, JobOf
  <2>2. \A j \in Jobs : extId'[j] # 0 => \E e \in ExecIds' : execs'[e].job = j
    BY <1>3, <2>1, RecordNames DEF NamedInv
  <2>3. ASSUME NEW v \in Workers, pc'[v] \in Naming
        PROVE  \E e \in ExecIds' : execs'[e].job = JobOf(v)'
    BY <1>3, <2>1, <2>3, RecordNames DEF NamedInv, Naming
  <2> QED
    BY <2>2, <2>3 DEF NamedInv
<1>4. ASSUME NEW w \in Workers, Start(w) PROVE NamedInv'
  <2>1. \A v \in Workers : JobOf(v)' = JobOf(v)
    BY <1>4, StartNames DEF JobOf
  <2>2. \A j \in Jobs : extId'[j] # 0 => \E e \in ExecIds' : execs'[e].job = j
    BY <1>4, StartNames DEF NamedInv
  <2>3. ASSUME NEW v \in Workers, pc'[v] \in Naming
        PROVE  \E e \in ExecIds' : execs'[e].job = JobOf(v)'
    BY <1>4, <2>1, <2>3, StartNames DEF NamedInv
  <2> QED
    BY <2>2, <2>3 DEF NamedInv
<1> QED
  BY <1>1, <1>2, <1>3, <1>4, NameActions

-----------------------------------------------------------------------------
(* The message of a queued job. A worker that is going to acknowledge its  *)
(* message is no carrier: it got there because the job was not queued, and *)
(* if the job is queued again, somebody else's claim was undone.           *)

Carrying(w) == pc[w] \notin {"idle", "clear", "release"}

Carrier(j) ==
  \/ \E m \in Message : m.job = j /\ queue[m] > 0
  \/ \E w \in Workers : Carrying(w) /\ JobOf(w) = j

CarryInv == \A j \in Jobs : status[j] = "queued" => Carrier(j)

\* Whoever but a given worker carries a job goes on doing so.
OthersCarry(w) ==
  /\ \A j \in Jobs : status'[j] = "queued" => status[j] = "queued" \/ Carrier(j)'
  /\ \A m \in Message : queue[m] > 0 => queue'[m] > 0
  /\ \A v \in Workers \ {w} : Carrying(v) => Carrying(v)' /\ JobOf(v)' = JobOf(v)

\* A worker moves on: it carries the job still, or another carries it, or the job is
\* not queued.
LEMMA CarryMoves ==
  ASSUME TypeInv, CarryInv, NEW w \in Workers, OthersCarry(w),
         NEW i, Carrying(w) => JobOf(w) = i,
         \/ ~Carrying(w)
         \/ Carrying(w)' /\ JobOf(w)' = i
         \/ status'[i] # "queued"
         \/ Carrier(i)'
  PROVE  CarryInv'
<1> SUFFICES ASSUME NEW j \in Jobs, status'[j] = "queued", ~Carrier(j)'
             PROVE  FALSE
  BY DEF CarryInv
<1>1. Carrier(j)
  BY DEF OthersCarry, CarryInv
<1>2. ~ \E m \in Message : m.job = j /\ queue[m] > 0
  BY DEF OthersCarry, Carrier
<1>3. PICK v \in Workers : Carrying(v) /\ JobOf(v) = j
  BY <1>1, <1>2 DEF Carrier
<1>4. CASE v = w
  BY <1>3, <1>4 DEF Carrier
<1>5. CASE v # w
  BY <1>3, <1>5 DEF OthersCarry, Carrier
<1> QED
  BY <1>4, <1>5

\* The environment takes no message away.
LEMMA CarryStays ==
  ASSUME TypeInv, CarryInv,
         \A j \in Jobs : status'[j] = "queued" => status[j] = "queued",
         \A m \in Message : queue[m] > 0 => queue'[m] > 0, UNCHANGED <<pc, hand>>
  PROVE  CarryInv'
<1> SUFFICES ASSUME NEW j \in Jobs, status'[j] = "queued"
             PROVE  Carrier(j)'
  BY DEF CarryInv
<1>1. Carrier(j)
  BY DEF CarryInv
<1> QED
  BY <1>1 DEF Carrier, Carrying, JobOf

LEMMA CarrierHasJob ==
  ASSUME TypeInv, NEW w \in Workers, Carrying(w)
  PROVE  hand[w] \in Message /\ JobOf(w) \in Jobs /\ hand[w].job = JobOf(w)
BY DEF TypeInv, HandOK, Carrying, JobOf, Message

LEMMA PutCarries ==
  ASSUME TypeInv, NEW m \in Message, Put(m)
  PROVE  Carrier(m.job)' /\ \A k \in Message : queue[k] > 0 => queue'[k] > 0
<1>1. /\ queue' = [queue EXCEPT ![m] = @ + 1] /\ queue \in [Message -> Nat]
      /\ Message' = Message
  BY DEF Put, TypeInv, TypeOK, Message
<1>2. queue'[m] > 0 /\ \A k \in Message : queue[k] > 0 => queue'[k] > 0
  BY <1>1
<1> QED
  BY <1>2 DEF Carrier

\* A deferred message is queued again, or its job is failed.
LEMMA DeferCarries ==
  ASSUME TypeInv, NEW w \in Workers, Carrying(w), DeferJob(w), NEW i, i = JobOf(w)
  PROVE  /\ status'[i] # "queued" \/ Carrier(i)'
         /\ \A j \in Jobs : status'[j] = "queued" => status[j] = "queued"
         /\ \A m \in Message : queue[m] > 0 => queue'[m] > 0
         /\ \A v \in Workers \ {w} : hand'[v] = hand[v]
<1>1. hand[w] \in Message /\ JobOf(w) \in Jobs
  BY CarrierHasJob
<1>2. \A v \in Workers \ {w} : hand'[v] = hand[v]
  BY DEF DeferJob, Ack, TypeInv, TypeOK
<1>3. CASE hand[w].defers >= MaxDefers
  BY <1>1, <1>2, <1>3 DEF DeferJob, MarkFailed, Terminal, TypeInv, TypeOK
<1>4. CASE ~(hand[w].defers >= MaxDefers)
  <2> DEFINE m == [job |-> JobOf(w), defers |-> hand[w].defers + 1, deq |-> 0]
  <2>1. m \in Message /\ m.job = i
    BY <1>1, <1>4, DispatchConstants DEF Message
  <2>2. Put(m) /\ UNCHANGED status
    BY <1>4 DEF DeferJob
  <2> HIDE DEF m
  <2>3. PICK k \in Message : k = m
    BY <2>1
  <2>4. Carrier(k.job)' /\ \A n \in Message : queue[n] > 0 => queue'[n] > 0
    BY <2>2, <2>3, PutCarries
  <2> QED
    BY <1>2, <2>1, <2>2, <2>3, <2>4
<1> QED
  BY <1>3, <1>4

\* The other workers stay where they are.
LEMMA OthersMove ==
  ASSUME TypeInv, NEW w \in Workers, NEW step, Go(w, step)
  PROVE  pc'[w] = step /\ \A v \in Workers \ {w} : pc'[v] = pc[v]
BY DEF Go, TypeInv, TypeOK

LEMMA OthersKeep ==
  ASSUME TypeInv, NEW w \in Workers, Ack(w)
  PROVE  hand'[w] = NoMsg /\ \A v \in Workers \ {w} : hand'[v] = hand[v]
BY DEF Ack, TypeInv, TypeOK

\* A worker takes a step with its message and nothing happens to the messages.
LEMMA StillCarries ==
  ASSUME TypeInv, CarryInv, NEW w \in Workers, NEW step \in Steps \ {"idle", "clear", "release"},
         Go(w, step), UNCHANGED <<queue, hand>>,
         \A j \in Jobs : status'[j] = "queued" => status[j] = "queued" \/ JobOf(w) = j
  PROVE  CarryInv'
<1>1. pc'[w] = step /\ \A v \in Workers \ {w} : pc'[v] = pc[v]
  BY OthersMove
<1>2. \A v \in Workers : JobOf(v)' = JobOf(v)
  BY DEF JobOf
<1>3. Carrying(w)' /\ OthersCarry(w)
  BY <1>1, <1>2 DEF OthersCarry, Carrying, Carrier
<1>4. PICK i : i = JobOf(w)
  OBVIOUS
<1> QED
  BY <1>2, <1>3, <1>4, CarryMoves

\* A worker is done with a message whose job is not queued, or was done before.
LEMMA StopsCarrying ==
  ASSUME TypeInv, CarryInv, NEW w \in Workers, NEW step \in Steps, Go(w, step),
         UNCHANGED <<queue, status>>, UNCHANGED hand \/ Ack(w),
         ~Carrying(w) \/ status[JobOf(w)] # "queued"
  PROVE  CarryInv'
<1>1. pc'[w] = step /\ \A v \in Workers \ {w} : pc'[v] = pc[v]
  BY OthersMove
<1>2. \A v \in Workers \ {w} : JobOf(v)' = JobOf(v)
  BY OthersKeep DEF JobOf
<1>3. OthersCarry(w)
  BY <1>1, <1>2 DEF OthersCarry, Carrying
<1>4. PICK i : i = JobOf(w)
  OBVIOUS
<1>5. ~Carrying(w) \/ status'[i] # "queued"
  BY <1>4
<1> QED
  BY <1>3, <1>4, <1>5, CarryMoves

\* A worker lets go of its message, which is queued again or whose job is not queued.
LEMMA LetsGo ==
  ASSUME TypeInv, CarryInv, NEW w \in Workers, NEW step \in Steps, Go(w, step),
         \A v \in Workers \ {w} : hand'[v] = hand[v],
         \A m \in Message : queue[m] > 0 => queue'[m] > 0,
         \A j \in Jobs : status'[j] = "queued" => status[j] = "queued",
         NEW i, i = JobOf(w), status'[i] # "queued" \/ Carrier(i)'
  PROVE  CarryInv'
<1>1. \A v \in Workers \ {w} : pc'[v] = pc[v] /\ JobOf(v)' = JobOf(v)
  BY OthersMove DEF JobOf
<1>2. OthersCarry(w)
  BY <1>1 DEF OthersCarry, Carrying
<1> QED
  BY <1>2, CarryMoves

LEMMA ReceiveCarries ==
  ASSUME TypeInv, CarryInv, NEW w \in Workers, Receive(w) \/ ReceivePaused(w)
  PROVE  CarryInv'
<1> SUFFICES ASSUME NEW j \in Jobs, status'[j] = "queued"
             PROVE  Carrier(j)'
  BY DEF CarryInv
<1>1. Carrier(j)
  BY DEF CarryInv, Receive, ReceivePaused, jobVars
<1>2. CASE Receive(w)
  <2>1. PICK m \in Message :
          /\ queue' = [queue EXCEPT ![m] = @ - 1]
          /\ hand' = [hand EXCEPT ![w] = [m EXCEPT !.deq = @ + 1]]
    BY <1>2 DEF Receive
  <2> DEFINE taken == [m EXCEPT !.deq = @ + 1]
  <2>2. taken.job = m.job
    BY DEF Message
  <2>3. hand' = [hand EXCEPT ![w] = taken]
    BY <2>1
  <2> HIDE DEF taken
  <2>4. hand'[w].job = m.job /\ \A v \in Workers \ {w} : hand'[v] = hand[v]
    BY <2>2, <2>3 DEF TypeInv, TypeOK
  <2>5. pc[w] = "idle" /\ pc'[w] = "acquire" /\ \A v \in Workers \ {w} : pc'[v] = pc[v]
    BY <1>2, OthersMove DEF Receive
  <2>6. CASE m.job = j
    BY <2>4, <2>5, <2>6 DEF Carrier, Carrying, JobOf
  <2>7. CASE m.job # j
    <3>1. \A k \in Message : k.job = j => queue'[k] = queue[k]
      BY <2>1, <2>7 DEF TypeInv, TypeOK
    <3>2. \A v \in Workers : Carrying(v) => Carrying(v)' /\ JobOf(v)' = JobOf(v)
      BY <2>4, <2>5 DEF Carrying, JobOf
    <3> QED
      BY <1>1, <3>1, <3>2 DEF Carrier
  <2> QED
    BY <2>6, <2>7
<1>3. CASE ReceivePaused(w)
  <2>1. PICK m \in Message :
          LET back == [m EXCEPT !.deq = 0]
          IN queue' = IF back = m THEN queue
                      ELSE [queue EXCEPT ![m] = @ - 1, ![back] = @ + 1]
    BY <1>3 DEF ReceivePaused
  <2> DEFINE back == [m EXCEPT !.deq = 0]
             took == [queue EXCEPT ![m] = @ - 1]
  <2>2. back \in Message /\ back.job = m.job
    BY DispatchConstants DEF Message
  <2>3. queue' = queue \/ queue' = [took EXCEPT ![back] = @ + 1]
    BY <2>1
  <2>4. /\ took \in [Message -> Int] /\ \A k \in Message \ {m} : took[k] = queue[k]
        /\ took[m] = queue[m] - 1 /\ queue \in [Message -> Nat]
    BY DEF TypeInv, TypeOK
  <2> HIDE DEF back, took
  <2>5. \A k \in Message : queue[k] > 0 => queue'[k] > 0 \/ (k = m /\ queue'[back] > 0)
    BY <2>2, <2>3, <2>4
  <2>6. UNCHANGED <<pc, hand>>
    BY <1>3 DEF ReceivePaused, workerVars
  <2> QED
    BY <1>1, <2>2, <2>5, <2>6 DEF Carrier, Carrying, JobOf
<1> QED
  BY <1>2, <1>3

LEMMA HandlerCarries ==
  ASSUME TypeInv, StartInv, NamedInv, CarryInv, NEW w \in Workers,
         \/ Acquire(w) \/ AcquireBusy(w) \/ AcquireError(w)
         \/ ReadRow(w) \/ Recover(w) \/ CountActive(w) \/ CheckCap(w) \/ ApiRaises(w)
  PROVE  CarryInv'
<1>0. PICK i : i = JobOf(w)
  OBVIOUS
<1>1. CASE Acquire(w)
  BY <1>1, StillCarries DEF Acquire, Steps, jobVars, queueVars
<1>2. CASE CountActive(w)
  BY <1>2, StillCarries DEF CountActive, Steps, jobVars, queueVars
<1>3. CASE ApiRaises(w)
  BY <1>3, StillCarries DEF ApiRaises, Steps, jobVars, queueVars
<1>4. CASE AcquireBusy(w)
  <2>1. Carrying(w) /\ DeferJob(w) /\ Go(w, "idle")
    BY <1>4 DEF AcquireBusy, Carrying
  <2> QED
    BY <1>0, <2>1, DeferCarries, LetsGo DEF Steps
<1>5. CASE AcquireError(w)
  <2>1. Carrying(w) /\ MarkFailed(JobOf(w)) /\ Ack(w) /\ Go(w, "idle") /\ UNCHANGED queue
    BY <1>5 DEF AcquireError, Carrying, queueVars
  <2>2. JobOf(w) \in Jobs
    BY <2>1, CarrierHasJob
  <2>3. status'[i] # "queued" /\ \A j \in Jobs : status'[j] = "queued" => status[j] = "queued"
    BY <1>0, <2>1, <2>2 DEF MarkFailed, Terminal, TypeInv, TypeOK
  <2> QED
    BY <1>0, <2>1, <2>3, OthersKeep, LetsGo DEF Steps
<1>6. CASE ReadRow(w)
  <2>1. Carrying(w) /\ JobOf(w) \in Jobs /\ UNCHANGED <<queue, status, hand>>
    BY <1>6, CarrierHasJob DEF ReadRow, Carrying, queueVars, jobVars
  <2>2. extId[JobOf(w)] # 0 => status[JobOf(w)] # "queued"
    BY <2>1 DEF NamedInv, StartInv
  <2>3. \/ \E step \in {"recover", "count"} : Go(w, step)
        \/ \E step \in {"clear", "release"} : Go(w, step) /\ status[JobOf(w)] # "queued"
    BY <1>6, <2>2 DEF ReadRow
  <2> QED
    BY <2>1, <2>3, StillCarries, StopsCarrying DEF Steps
<1>7. CASE Recover(w)
  <2>1. Go(w, "clear") /\ UNCHANGED <<queue, status, hand>> /\ pc[w] \in Naming
    BY <1>7 DEF Recover, queueVars, Naming
  <2>2. status[JobOf(w)] # "queued"
    BY <2>1 DEF NamedInv, StartInv
  <2> QED
    BY <2>1, <2>2, StopsCarrying DEF Steps
<1>8. CASE CheckCap(w)
  <2>1. Carrying(w)
    BY <1>8 DEF CheckCap, Carrying
  <2>2. CASE AtCap(w)
    <3>1. DeferJob(w) /\ Go(w, "release")
      BY <1>8, <2>2 DEF CheckCap
    <3> QED
      BY <1>0, <2>1, <3>1, DeferCarries, LetsGo DEF Steps
  <2>3. CASE ~AtCap(w)
    BY <1>8, <2>3, StillCarries DEF CheckCap, Steps
  <2> QED
    BY <2>2, <2>3
<1> QED
  BY <1>1, <1>2, <1>3, <1>4, <1>5, <1>6, <1>7, <1>8

LEMMA StarterCarries ==
  ASSUME TypeInv, StartInv, NamedInv, CarryInv, NEW w \in Workers,
         \/ Claim(w) \/ Mark(w) \/ Start(w) \/ StartFails(w)
         \/ StartResolves(w) \/ StartGuessed(w) \/ StartReplyLost(w)
         \/ Record(w) \/ RevertClaim(w) \/ ClearPending(w) \/ Return(w) \/ Raise(w) \/ Crash(w)
  PROVE  CarryInv'
<1>0. PICK i : i = JobOf(w)
  OBVIOUS
<1>1. CASE Claim(w)
  <2>1. UNCHANGED <<queue, hand>>
    BY <1>1 DEF Claim, queueVars
  <2>2. CASE status[JobOf(w)] = "queued"
    <3>1. \A j \in Jobs : status'[j] = "queued" => status[j] = "queued"
      BY <1>1, <2>2 DEF Claim, TypeInv, TypeOK
    <3>2. Go(w, "mark")
      BY <1>1, <2>2 DEF Claim
    <3> QED
      BY <2>1, <3>1, <3>2, StillCarries DEF Steps
  <2>3. CASE status[JobOf(w)] # "queued"
    BY <1>1, <2>1, <2>3, StopsCarrying DEF Claim, Steps
  <2> QED
    BY <2>2, <2>3
<1>2. CASE Mark(w)
  BY <1>2, StillCarries DEF Mark, Steps, jobVars, queueVars
<1>3. CASE Start(w) \/ StartFails(w)
  BY <1>3, StillCarries DEF Start, StartFails, Steps, jobVars, queueVars
<1>4. CASE StartResolves(w) \/ StartGuessed(w) \/ StartReplyLost(w)
  BY <1>4, StillCarries DEF StartResolves, StartGuessed, StartReplyLost, Steps, jobVars, queueVars
<1>5. CASE Record(w)
  <2>1. Go(w, "clear") /\ UNCHANGED <<queue, status, hand>> /\ pc[w] \in Naming
    BY <1>5 DEF Record, queueVars, Naming
  <2>2. status[JobOf(w)] # "queued"
    BY <2>1 DEF NamedInv, StartInv
  <2> QED
    BY <2>1, <2>2, StopsCarrying DEF Steps
<1>6. CASE RevertClaim(w)
  <2>1. Go(w, "unmark") /\ UNCHANGED <<queue, hand>>
    BY <1>6 DEF RevertClaim, queueVars
  <2>2. \A j \in Jobs : status'[j] = "queued" => status[j] = "queued" \/ JobOf(w) = j
    BY <1>6 DEF RevertClaim, TypeInv, TypeOK
  <2> QED
    BY <2>1, <2>2, StillCarries DEF Steps
<1>7. CASE ClearPending(w)
  <2>1. UNCHANGED <<queue, status, hand>>
    BY <1>7 DEF ClearPending, queueVars, jobVars
  <2>2. \/ Go(w, "raise")
        \/ Go(w, "release") /\ ~Carrying(w)
    BY <1>7 DEF ClearPending, Carrying
  <2> QED
    BY <2>1, <2>2, StillCarries, StopsCarrying DEF Steps
<1>8. CASE Return(w)
  BY <1>8, StopsCarrying DEF Return, Steps, Carrying, queueVars, jobVars
<1>9. CASE Raise(w) \/ Crash(w)
  <2>1. Ack(w) /\ Go(w, "idle") /\ UNCHANGED status
    BY <1>9 DEF Raise, Crash, jobVars
  <2>2. CASE hand[w] = NoMsg
    <3>1. ~Carrying(w)
      BY <2>2, CarrierHasJob, EmptyHand
    <3>2. UNCHANGED queue
      BY <1>9, <2>2, <3>1 DEF Raise, Crash, Carrying
    <3> QED
      BY <2>1, <3>1, <3>2, StopsCarrying DEF Steps
  <2>3. CASE hand[w] # NoMsg
    <3>1. PICK m \in Message : m = hand[w]
      BY <2>3 DEF TypeInv, TypeOK
    <3>2. Put(m)
      BY <1>9, <2>3, <3>1 DEF Raise, Crash, Put
    <3>3. Carrier(m.job)' /\ \A k \in Message : queue[k] > 0 => queue'[k] > 0
      BY <3>2, PutCarries
    <3>4. i = m.job
      BY <1>0, <3>1 DEF JobOf
    <3> QED
      BY <1>0, <2>1, <3>3, <3>4, OthersKeep, LetsGo DEF Steps
  <2> QED
    BY <2>2, <2>3
<1> QED
  BY <1>1, <1>2, <1>3, <1>4, <1>5, <1>6, <1>7, <1>8, <1>9

LEMMA EnvironmentCarries ==
  ASSUME TypeInv, CarryInv,
         \/ Poison \/ LeaseExpires \/ GraceExpires \/ ToggleDispatch \/ UNCHANGED vars
         \/ \E j \in Jobs : Duplicate(j)
         \/ \E e \in ExecIds : Container(e)
  PROVE  CarryInv'
<1>1. CASE Poison
  <2>1. PICK m \in Message : queue' = [queue EXCEPT ![m] = @ - 1] /\ MarkFailed(m.job)
    BY <1>1 DEF Poison
  <2>2. m.job \in Jobs /\ UNCHANGED <<pc, hand>>
    BY <1>1 DEF Poison, Message, workerVars
  <2>3. status'[m.job] # "queued" /\ \A j \in Jobs : status'[j] = "queued" => status[j] = "queued"
    BY <2>1, <2>2 DEF MarkFailed, Terminal, TypeInv, TypeOK
  <2>4. \A k \in Message \ {m} : queue'[k] = queue[k]
    BY <2>1 DEF TypeInv, TypeOK
  <2>5. ASSUME NEW j \in Jobs, status'[j] = "queued" PROVE Carrier(j)'
    <3>1. Carrier(j) /\ j # m.job
      BY <2>3, <2>5 DEF CarryInv
    <3> QED
      BY <2>2, <2>4, <3>1 DEF Carrier, Carrying, JobOf
  <2> QED
    BY <2>5 DEF CarryInv
<1>2. CASE LeaseExpires \/ GraceExpires \/ ToggleDispatch \/ UNCHANGED vars
  BY <1>2, CarryStays
     DEF LeaseExpires, GraceExpires, ToggleDispatch, vars, jobVars, queueVars, workerVars
<1>3. ASSUME NEW j \in Jobs, Duplicate(j) PROVE CarryInv'
  <2>1. Fresh(j) \in Message
    BY DispatchConstants DEF Fresh, Message
  <2>2. \A m \in Message : queue[m] > 0 => queue'[m] > 0
    BY <1>3, <2>1, PutCarries DEF Duplicate
  <2> QED
    BY <1>3, <2>2, CarryStays DEF Duplicate, jobVars, workerVars
<1>4. ASSUME NEW e \in ExecIds, Container(e) PROVE CarryInv'
  <2>1. UNCHANGED <<queue, pc, hand>>
    BY <1>4 DEF Container, Appears, Boots, Ends, Dies, queueVars, workerVars
  <2>2. \A j \in Jobs : status'[j] = "queued" => status[j] = "queued"
    BY <1>4 DEF Container, Appears, Boots, Ends, Dies, jobVars, Terminal, TypeInv, TypeOK
  <2> QED
    BY <2>1, <2>2, CarryStays
<1> QED
  BY <1>1, <1>2, <1>3, <1>4

\* As long as a start call that raises has started nothing, a job that waits for a GPU
\* is carried by a message, in the queue or in the hand of a worker that has not yet
\* decided to drop it: through deferrals, redeliveries, crashes, a paused dispatcher,
\* the poison queue and claims that are undone, for any number of jobs and workers.
THEOREM WaitingIsCarried == "replyLost" \notin Faults => (Spec => []QueuedIsCarried)
<1> SUFFICES ASSUME "replyLost" \notin Faults PROVE Spec => []QueuedIsCarried
  OBVIOUS
<1>1. Init => StartInv /\ NamedInv /\ CarryInv
  <2> SUFFICES ASSUME Init PROVE StartInv /\ NamedInv /\ CarryInv
    OBVIOUS
  <2>1. StartInv /\ NamedInv
    BY DEF Init, StartInv, NoDoubleStart, ExecIds, Starting, NamedInv, Naming
  <2>2. ASSUME NEW j \in Jobs PROVE Carrier(j)
    <3>1. Fresh(j) \in Message /\ Fresh(j).job = j
      BY DispatchConstants DEF Fresh, Message
    <3>2. queue[Fresh(j)] = 1
      BY <3>1 DEF Init
    <3> QED
      BY <3>1, <3>2 DEF Carrier
  <2> QED
    BY <2>1, <2>2 DEF CarryInv
<1>2. TypeInv /\ StartInv /\ NamedInv /\ CarryInv /\ [Next]_vars
        => (StartInv /\ NamedInv /\ CarryInv)'
  <2> SUFFICES ASSUME TypeInv, StartInv, NamedInv, CarryInv, [Next]_vars
               PROVE  (StartInv /\ NamedInv /\ CarryInv)'
    OBVIOUS
  <2>1. StartInv' /\ NamedInv'
    BY StartStep, NamedStep
  <2>2. CarryInv'
    BY ReceiveCarries, HandlerCarries, StarterCarries, EnvironmentCarries DEF Next, Handler
  <2> QED
    BY <2>1, <2>2
<1>3. TypeInv /\ CarryInv => QueuedIsCarried
  <2> SUFFICES ASSUME TypeInv, CarryInv PROVE QueuedIsCarried
    OBVIOUS
  <2>1. \A w \in Workers : Carrying(w) => hand[w] # NoMsg /\ hand[w].job = JobOf(w)
    BY CarrierHasJob, EmptyHand
  <2> QED
    BY <2>1 DEF CarryInv, Carrier, QueuedIsCarried
<1> QED
  BY <1>1, <1>2, <1>3, TypeInit, TypeStep, PTL DEF Spec

-----------------------------------------------------------------------------
(* One message per job. Without redelivery the message is a token: whoever *)
(* has it alone may act on its job, and the job waits until it is claimed. *)

\* Steps of a worker whose job still waits, or waits again.
Waiting == {"acquire", "read", "count", "cap", "claim", "unmark", "raise"}

Alone ==
  /\ \A m \in Message : queue[m] <= 1
  /\ \A m, n \in Message : queue[m] > 0 /\ queue[n] > 0 /\ m.job = n.job => m = n
  /\ \A w \in Workers, m \in Message :
       hand[w] # NoMsg /\ queue[m] > 0 => hand[w].job # m.job
  /\ \A v, w \in Workers :
       hand[v] # NoMsg /\ hand[w] # NoMsg /\ hand[v].job = hand[w].job => v = w

InStep ==
  /\ \A m \in Message : queue[m] > 0 => status[m.job] = "queued"
  /\ \A w \in Workers :
       /\ pc[w] \in Waiting => status[JobOf(w)] = "queued"
       /\ pc[w] \in Starting => status[JobOf(w)] = "dispatching"
       /\ pc[w] # "recover"

TokenInv == Alone /\ InStep

\* A worker that is neither idle nor returning has a message.
LEMMA HolderOf ==
  ASSUME TypeInv, NEW w \in Workers, pc[w] \notin {"idle", "release"}
  PROVE  hand[w] \in Message /\ hand[w] # NoMsg /\ JobOf(w) \in Jobs /\ hand[w].job = JobOf(w)
BY EmptyHand DEF TypeInv, HandOK, JobOf, Message

\* A worker takes a step with its message, and only its own job changes.
LEMMA Paces ==
  ASSUME TypeInv, TokenInv, NEW w \in Workers, pc[w] \notin {"idle", "release"},
         NEW step \in Steps \ {"recover"}, Go(w, step), UNCHANGED <<queue, hand>>,
         NEW i, i = JobOf(w), \A j \in Jobs : j # i => status'[j] = status[j],
         step \in Waiting => status'[i] = "queued",
         step \in Starting => status'[i] = "dispatching"
  PROVE  TokenInv'
<1>1. Message' = Message  BY DEF Message
<1>2. Alone'  BY <1>1 DEF TokenInv, Alone
<1>3. pc'[w] = step /\ \A v \in Workers \ {w} : pc'[v] = pc[v]  BY OthersMove
<1>4. hand[w] # NoMsg /\ hand[w].job = i  BY HolderOf
<1>5. ASSUME NEW m \in Message, queue'[m] > 0 PROVE status'[m.job] = "queued"
  <2>1. m.job # i /\ m.job \in Jobs  BY <1>4, <1>5 DEF TokenInv, Alone, Message
  <2> QED  BY <1>5, <2>1 DEF TokenInv, InStep
<1>6. ASSUME NEW v \in Workers
      PROVE  /\ pc'[v] \in Waiting => status'[JobOf(v)'] = "queued"
             /\ pc'[v] \in Starting => status'[JobOf(v)'] = "dispatching"
             /\ pc'[v] # "recover"
  <2>1. JobOf(v)' = JobOf(v)  BY DEF JobOf
  <2>2. CASE v = w  BY <1>3, <2>1, <2>2
  <2>3. CASE v # w
    <3>1. pc'[v] = pc[v] /\ pc[v] # "recover"  BY <1>3, <2>3 DEF TokenInv, InStep
    <3>2. ASSUME pc[v] \in Waiting \cup Starting PROVE JobOf(v) \in Jobs /\ JobOf(v) # i
      <4>1. hand[v] # NoMsg /\ JobOf(v) \in Jobs /\ hand[v].job = JobOf(v)
        BY <3>2, HolderOf DEF Waiting, Starting
      <4> QED  BY <1>4, <2>3, <4>1 DEF TokenInv, Alone
    <3> QED  BY <2>1, <3>1, <3>2 DEF TokenInv, InStep
  <2> QED  BY <2>2, <2>3
<1> QED  BY <1>1, <1>2, <1>5, <1>6 DEF TokenInv, InStep

\* A worker gives its message up; its job, and no other, may have been failed.
LEMMA Drops ==
  ASSUME TypeInv, TokenInv, NEW w \in Workers, NEW step \in {"idle", "release"}, Go(w, step),
         Ack(w), queue' = queue,
         NEW i, hand[w] # NoMsg => hand[w].job = i,
         \A j \in Jobs : status'[j] = status[j] \/ (hand[w] # NoMsg /\ j = i)
  PROVE  TokenInv'
<1>1. Message' = Message  BY DEF Message
<1>2. pc'[w] = step /\ \A v \in Workers \ {w} : pc'[v] = pc[v]  BY OthersMove
<1>3. hand'[w] = NoMsg /\ \A v \in Workers \ {w} : hand'[v] = hand[v]  BY OthersKeep
<1>4. Alone'  BY <1>1, <1>3 DEF TokenInv, Alone
<1>5. ASSUME NEW m \in Message, queue'[m] > 0 PROVE status'[m.job] = "queued"
  <2>1. m.job \in Jobs /\ (hand[w] # NoMsg => m.job # i)
    BY <1>5 DEF TokenInv, Alone, Message
  <2> QED  BY <1>5, <2>1 DEF TokenInv, InStep
<1>6. ASSUME NEW v \in Workers \ {w}
      PROVE  /\ pc'[v] \in Waiting => status'[JobOf(v)'] = "queued"
             /\ pc'[v] \in Starting => status'[JobOf(v)'] = "dispatching"
             /\ pc'[v] # "recover"
  <2>1. JobOf(v)' = JobOf(v)  BY <1>3 DEF JobOf
  <2>2. pc'[v] = pc[v] /\ pc[v] # "recover"  BY <1>2 DEF TokenInv, InStep
  <2>3. ASSUME pc[v] \in Waiting \cup Starting
        PROVE  JobOf(v) \in Jobs /\ status'[JobOf(v)] = status[JobOf(v)]
    <3>1. hand[v] # NoMsg /\ JobOf(v) \in Jobs /\ hand[v].job = JobOf(v)
      BY <2>3, HolderOf DEF Waiting, Starting
    <3>2. hand[w] # NoMsg => JobOf(v) # i  BY <3>1 DEF TokenInv, Alone
    <3> QED  BY <3>1, <3>2
  <2> QED  BY <2>1, <2>2, <2>3 DEF TokenInv, InStep
<1>7. pc'[w] \notin Waiting \cup Starting \cup {"recover"}  BY <1>2 DEF Waiting, Starting
<1> QED  BY <1>1, <1>4, <1>5, <1>6, <1>7 DEF TokenInv, InStep

\* A worker puts its message back, as a new one of the same job, which waits.
LEMMA GivesBack ==
  ASSUME TypeInv, TokenInv, NEW w \in Workers, NEW step \in {"idle", "release"}, Go(w, step),
         Ack(w), NEW n \in Message, Put(n), hand[w] # NoMsg, hand[w].job = n.job,
         status' = status, status[n.job] = "queued"
  PROVE  TokenInv'
<1>1. Message' = Message  BY DEF Message
<1>2. pc'[w] = step /\ \A v \in Workers \ {w} : pc'[v] = pc[v]  BY OthersMove
<1>3. hand'[w] = NoMsg /\ \A v \in Workers \ {w} : hand'[v] = hand[v]  BY OthersKeep
<1>4. \A m \in Message : m.job = n.job => queue[m] = 0
  BY DEF TokenInv, Alone, TypeInv, TypeOK
<1>5. queue'[n] = 1 /\ \A m \in Message \ {n} : queue'[m] = queue[m]
  BY <1>4 DEF Put, TypeInv, TypeOK
<1>6. \A m \in Message : queue'[m] > 0 => m = n \/ (queue[m] > 0 /\ m.job # n.job)
  BY <1>4, <1>5
<1>7. \A v \in Workers : hand'[v] # NoMsg =>
        v # w /\ hand'[v] = hand[v] /\ hand[v].job # n.job
  BY <1>3 DEF TokenInv, Alone
<1>8. Alone'  BY <1>1, <1>5, <1>6, <1>7 DEF TokenInv, Alone
<1>9. \A m \in Message : queue'[m] > 0 => status'[m.job] = "queued"
  BY <1>6 DEF TokenInv, InStep
<1>10. ASSUME NEW v \in Workers
       PROVE  /\ pc'[v] \in Waiting => status'[JobOf(v)'] = "queued"
              /\ pc'[v] \in Starting => status'[JobOf(v)'] = "dispatching"
              /\ pc'[v] # "recover"
  <2>1. CASE v = w  BY <1>2, <2>1 DEF Waiting, Starting
  <2>2. CASE v # w
    <3>1. JobOf(v)' = JobOf(v) /\ pc'[v] = pc[v]  BY <1>2, <1>3, <2>2 DEF JobOf
    <3> QED  BY <3>1 DEF TokenInv, InStep
  <2> QED  BY <2>1, <2>2
<1> QED  BY <1>1, <1>8, <1>9, <1>10 DEF TokenInv, InStep

\* The host takes a message off the queue, or puts a paused one back.
LEMMA ReceiveToken ==
  ASSUME TypeInv, TokenInv, NEW w \in Workers, Receive(w) PROVE TokenInv'
<1>1. Message' = Message  BY DEF Message
<1>2. PICK m \in Message :
        /\ queue[m] > 0 /\ queue' = [queue EXCEPT ![m] = @ - 1]
        /\ hand' = [hand EXCEPT ![w] = [m EXCEPT !.deq = @ + 1]]
  BY DEF Receive
<1> DEFINE taken == [m EXCEPT !.deq = @ + 1]
<1>3. taken.job = m.job  BY DEF Message
<1>4. hand' = [hand EXCEPT ![w] = taken]  BY <1>2
<1> HIDE DEF taken
<1>5. hand'[w].job = m.job /\ \A v \in Workers \ {w} : hand'[v] = hand[v]
  BY <1>3, <1>4 DEF TypeInv, TypeOK
<1>6. status' = status /\ Go(w, "acquire")  BY DEF Receive, jobVars
<1>7. pc'[w] = "acquire" /\ \A v \in Workers \ {w} : pc'[v] = pc[v]  BY <1>6, OthersMove
<1>8. queue[m] = 1 /\ queue'[m] = 0 /\ \A k \in Message \ {m} : queue'[k] = queue[k]
  BY <1>2 DEF TokenInv, Alone, TypeInv, TypeOK
<1>9. \A k \in Message : queue'[k] > 0 => queue[k] > 0 /\ k.job # m.job
  BY <1>2, <1>8 DEF TokenInv, Alone
<1>10. \A v \in Workers \ {w} : hand[v] # NoMsg => hand[v].job # m.job
  BY <1>2 DEF TokenInv, Alone
<1>11. Alone'
  <2>1. \A k \in Message : queue'[k] <= 1  BY <1>8 DEF TokenInv, Alone
  <2>2. \A k, n \in Message : queue'[k] > 0 /\ queue'[n] > 0 /\ k.job = n.job => k = n
    BY <1>9 DEF TokenInv, Alone
  <2>3. \A v \in Workers, k \in Message :
          hand'[v] # NoMsg /\ queue'[k] > 0 => hand'[v].job # k.job
    BY <1>5, <1>9 DEF TokenInv, Alone
  <2>4. \A u, v \in Workers :
          hand'[u] # NoMsg /\ hand'[v] # NoMsg /\ hand'[u].job = hand'[v].job => u = v
    BY <1>5, <1>10 DEF TokenInv, Alone
  <2> QED  BY <1>1, <2>1, <2>2, <2>3, <2>4 DEF Alone
<1>12. status[m.job] = "queued"  BY <1>2 DEF TokenInv, InStep
<1>13. ASSUME NEW v \in Workers
       PROVE  /\ pc'[v] \in Waiting => status'[JobOf(v)'] = "queued"
              /\ pc'[v] \in Starting => status'[JobOf(v)'] = "dispatching"
              /\ pc'[v] # "recover"
  <2>1. CASE v = w  BY <1>5, <1>6, <1>7, <1>12, <2>1 DEF Starting, JobOf
  <2>2. CASE v # w
    <3>1. JobOf(v)' = JobOf(v) /\ pc'[v] = pc[v]  BY <1>5, <1>7, <2>2 DEF JobOf
    <3> QED  BY <1>6, <3>1 DEF TokenInv, InStep
  <2> QED  BY <2>1, <2>2
<1>14. \A k \in Message : queue'[k] > 0 => status'[k.job] = "queued"
  BY <1>6, <1>9 DEF TokenInv, InStep
<1> QED  BY <1>1, <1>11, <1>13, <1>14 DEF TokenInv, InStep

\* A message moves within the queue, or leaves it, its job with it.
LEMMA QueueToken ==
  ASSUME TypeInv, TokenInv, UNCHANGED <<pc, hand>>,
         NEW m \in Message, NEW b \in Message, queue[m] > 0, b.job = m.job,
         queue'[m] <= 1, queue'[b] <= 1, queue'[m] > 0 /\ queue'[b] > 0 => m = b,
         \A k \in Message \ {m, b} : queue'[k] = queue[k],
         \A j \in Jobs : status'[j] = status[j] \/ (j = m.job /\ queue'[m] = 0 /\ queue'[b] = 0)
  PROVE  TokenInv'
<1>1. Message' = Message  BY DEF Message
<1>2. \A k \in Message : k.job = m.job => k = m \/ ~(queue[k] > 0)  BY DEF TokenInv, Alone
<1>3. \A k \in Message : queue'[k] > 0 =>
        \/ k \in {m, b} /\ k.job = m.job
        \/ k \notin {m, b} /\ queue[k] > 0 /\ k.job # m.job
  BY <1>2 DEF TokenInv, Alone, TypeInv, TypeOK
<1>4. \A v \in Workers : hand[v] # NoMsg => hand[v].job # m.job  BY DEF TokenInv, Alone
<1>5. Alone'
  <2>1. \A k \in Message : queue'[k] <= 1  BY DEF TokenInv, Alone
  <2>2. \A k, n \in Message : queue'[k] > 0 /\ queue'[n] > 0 /\ k.job = n.job => k = n
    BY <1>3 DEF TokenInv, Alone
  <2>3. \A v \in Workers, k \in Message :
          hand'[v] # NoMsg /\ queue'[k] > 0 => hand'[v].job # k.job
    BY <1>3, <1>4 DEF TokenInv, Alone
  <2> QED  BY <1>1, <2>1, <2>2, <2>3 DEF TokenInv, Alone
<1>6. ASSUME NEW k \in Message, queue'[k] > 0 PROVE status'[k.job] = "queued"
  <2>1. k.job \in Jobs  BY DEF Message
  <2>2. status'[k.job] = status[k.job]  BY <1>3, <1>6, <2>1
  <2>3. status[k.job] = "queued"  BY <1>3, <1>6 DEF TokenInv, InStep
  <2> QED  BY <2>2, <2>3
<1>7. ASSUME NEW v \in Workers, pc[v] \in Waiting \cup Starting
      PROVE  status'[JobOf(v)] = status[JobOf(v)]
  <2>1. hand[v] # NoMsg /\ JobOf(v) \in Jobs /\ hand[v].job = JobOf(v)
    BY <1>7, HolderOf DEF Waiting, Starting
  <2> QED  BY <1>4, <2>1
<1>8. \A v \in Workers : JobOf(v)' = JobOf(v)  BY DEF JobOf
<1> QED  BY <1>1, <1>5, <1>6, <1>7, <1>8 DEF TokenInv, InStep

\* A step that moves no message and changes only the row of a job that has an execution.
LEMMA TokenStands ==
  ASSUME TypeInv, StartInv, TokenInv, UNCHANGED <<pc, hand, queue>>,
         \A j \in Jobs : status'[j] = status[j] \/ \E e \in ExecIds : execs[e].job = j
  PROVE  TokenInv'
<1>1. Message' = Message  BY DEF Message
<1>2. Alone'  BY <1>1 DEF TokenInv, Alone
<1>3. ASSUME NEW m \in Message, queue[m] > 0 PROVE status'[m.job] = "queued"
  <2>1. m.job \in Jobs /\ status[m.job] = "queued"
    BY <1>3 DEF TokenInv, InStep, Message
  <2> QED  BY <2>1 DEF StartInv
<1>4. ASSUME NEW v \in Workers, pc[v] \in Waiting \cup Starting
      PROVE  status'[JobOf(v)] = status[JobOf(v)]
  <2>1. JobOf(v) \in Jobs  BY <1>4, HolderOf DEF Waiting, Starting
  <2>2. \A e \in ExecIds : execs[e].job # JobOf(v)
    BY <1>4 DEF StartInv, TokenInv, InStep
  <2> QED  BY <2>1, <2>2
<1>5. \A v \in Workers : JobOf(v)' = JobOf(v)  BY DEF JobOf
<1> QED  BY <1>1, <1>2, <1>3, <1>4, <1>5 DEF TokenInv, InStep

\* A deferral puts the message back, or fails its job and drops it.
LEMMA DeferToken ==
  ASSUME TypeInv, TokenInv, NEW w \in Workers, pc[w] \in {"acquire", "cap"},
         NEW step \in {"idle", "release"}, Go(w, step), DeferJob(w)
  PROVE  TokenInv'
<1>1. PICK i \in Jobs : i = JobOf(w) /\ hand[w] \in Message /\ hand[w] # NoMsg /\ hand[w].job = i
  BY HolderOf
<1>2. status[i] = "queued"  BY <1>1 DEF TokenInv, InStep, Waiting
<1>3. CASE hand[w].defers >= MaxDefers
  <2>1. Ack(w) /\ MarkFailed(i) /\ queue' = queue  BY <1>1, <1>3 DEF DeferJob
  <2>2. \A j \in Jobs : status'[j] = status[j] \/ j = i
    BY <2>1 DEF MarkFailed, TypeInv, TypeOK
  <2> QED  BY <1>1, <2>1, <2>2, Drops
<1>4. CASE ~(hand[w].defers >= MaxDefers)
  <2> DEFINE n == [job |-> JobOf(w), defers |-> hand[w].defers + 1, deq |-> 0]
  <2>1. n \in Message /\ n.job = i  BY <1>1, <1>4, DispatchConstants DEF Message
  <2>2. Ack(w) /\ Put(n) /\ status' = status  BY <1>4 DEF DeferJob
  <2> HIDE DEF n
  <2>3. PICK m \in Message : m = n  BY <2>1
  <2> QED  BY <1>1, <1>2, <2>1, <2>2, <2>3, GivesBack
<1> QED  BY <1>3, <1>4

LEMMA HandlerToken ==
  ASSUME "replyLost" \notin Faults, TypeInv, StartInv, NamedInv, TokenInv,
         NEW w \in Workers, Handler(w)
  PROVE  TokenInv'
<1>0. PICK i : i = JobOf(w)  OBVIOUS
<1>1. CASE Receive(w)  BY <1>1, ReceiveToken
<1>2. CASE ReceivePaused(w)
  <2>1. PICK m \in Message :
          /\ queue[m] > 0
          /\ LET back == [m EXCEPT !.deq = 0]
             IN queue' = IF back = m THEN queue
                         ELSE [queue EXCEPT ![m] = @ - 1, ![back] = @ + 1]
    BY <1>2 DEF ReceivePaused
  <2> DEFINE back == [m EXCEPT !.deq = 0]
             took == [queue EXCEPT ![m] = @ - 1]
  <2>2. back \in Message /\ back.job = m.job  BY DispatchConstants DEF Message
  <2>3. queue' = queue \/ (back # m /\ queue' = [took EXCEPT ![back] = @ + 1])
    BY <2>1
  <2>4. /\ took \in [Message -> Int] /\ \A k \in Message \ {m} : took[k] = queue[k]
        /\ took[m] = queue[m] - 1
    BY DEF TypeInv, TypeOK
  <2> HIDE DEF back, took
  <2>5. UNCHANGED <<pc, hand, status>>  BY <1>2 DEF ReceivePaused, workerVars, jobVars
  <2>6. CASE queue' = queue  BY <2>5, <2>6, TokenStands
  <2>7. CASE back # m /\ queue' = [took EXCEPT ![back] = @ + 1]
    <3>1. queue[m] = 1 /\ queue[back] = 0
      BY <2>1, <2>2, <2>7 DEF TokenInv, Alone, TypeInv, TypeOK
    <3>2. /\ queue'[m] = 0 /\ queue'[back] = 1
          /\ \A k \in Message \ {m, back} : queue'[k] = queue[k]
      BY <2>2, <2>4, <2>7, <3>1
    <3>3. PICK b \in Message : b = back  BY <2>2
    <3>4. /\ b.job = m.job /\ queue'[m] <= 1 /\ queue'[b] <= 1 /\ ~(queue'[m] > 0)
          /\ \A k \in Message \ {m, b} : queue'[k] = queue[k]
          /\ UNCHANGED <<pc, hand>> /\ \A j \in Jobs : status'[j] = status[j]
      BY <2>2, <2>5, <3>2, <3>3
    <3> QED  BY <2>1, <3>4, QueueToken
  <2> QED  BY <2>3, <2>6, <2>7
<1>3. CASE AcquireBusy(w)
  BY <1>3, DeferToken DEF AcquireBusy
<1>4. CASE AcquireError(w)
  <2>1. hand[w] # NoMsg /\ hand[w].job = i  BY <1>0, <1>4, HolderOf DEF AcquireError
  <2>2. MarkFailed(i) /\ Ack(w) /\ Go(w, "idle") /\ queue' = queue
    BY <1>0, <1>4 DEF AcquireError, queueVars
  <2>3. \A j \in Jobs : status'[j] = status[j] \/ j = i
    BY <2>2 DEF MarkFailed, TypeInv, TypeOK
  <2> QED  BY <2>1, <2>2, <2>3, Drops
<1>5. CASE CheckCap(w) /\ AtCap(w)
  BY <1>5, DeferToken DEF CheckCap
<1>6. CASE Return(w)
  BY <1>6, Drops DEF Return, queueVars, jobVars
<1>7. CASE Raise(w)
  <2>1. PICK n \in Message : n = hand[w] /\ n # NoMsg /\ n.job = i
    BY <1>0, <1>7, HolderOf DEF Raise
  <2>2. status[i] = "queued"  BY <1>0, <1>7 DEF Raise, TokenInv, InStep, Waiting
  <2>3. Put(n) /\ Ack(w) /\ Go(w, "idle") /\ status' = status
    BY <1>7, <2>1 DEF Raise, jobVars
  <2> QED  BY <2>1, <2>2, <2>3, GivesBack
<1>8. CASE ReadRow(w)
  <2>1. status[i] = "queued" /\ i \in Jobs
    BY <1>0, <1>8, HolderOf DEF ReadRow, TokenInv, InStep, Waiting
  <2>2. extId[i] = 0  BY <2>1 DEF NamedInv, StartInv
  <2>3. Go(w, "count")  BY <1>0, <1>8, <2>1, <2>2 DEF ReadRow
  <2> QED  BY <1>0, <1>8, <2>1, <2>3, Paces DEF ReadRow, Steps, Starting, queueVars, jobVars
<1>9. CASE Recover(w)  BY <1>9 DEF Recover, TokenInv, InStep
<1>10. CASE Acquire(w) \/ CountActive(w) \/ ApiRaises(w) \/ (CheckCap(w) /\ ~AtCap(w))
  <2>1. \E step \in {"read", "cap", "raise", "claim"} : Go(w, step)
    BY <1>10 DEF Acquire, CountActive, ApiRaises, CheckCap
  <2>2. pc[w] \in Waiting /\ UNCHANGED <<status, queue, hand>>
    BY <1>10 DEF Acquire, CountActive, ApiRaises, CheckCap, Waiting, queueVars, jobVars
  <2>3. status[i] = "queued"  BY <1>0, <2>2 DEF TokenInv, InStep
  <2> QED  BY <1>0, <2>1, <2>2, <2>3, Paces DEF Waiting, Starting, Steps
<1>11. CASE Claim(w)
  <2>1. status[i] = "queued" /\ i \in Jobs
    BY <1>0, <1>11, HolderOf DEF Claim, TokenInv, InStep, Waiting
  <2>2. Go(w, "mark") /\ status' = [status EXCEPT ![i] = "dispatching"]
        /\ UNCHANGED <<queue, hand>> /\ pc[w] = "claim"
    BY <1>0, <1>11, <2>1 DEF Claim, queueVars
  <2>3. status'[i] = "dispatching" /\ \A j \in Jobs : j # i => status'[j] = status[j]
    BY <2>1, <2>2 DEF TypeInv, TypeOK
  <2> QED  BY <1>0, <2>2, <2>3, Paces DEF Waiting, Steps
<1>12. CASE Mark(w) \/ Start(w) \/ StartFails(w)
  <2>1. \E step \in {"start", "started", "revert"} : Go(w, step)
    BY <1>12 DEF Mark, Start, StartFails
  <2>2. pc[w] \in Starting /\ UNCHANGED <<status, queue, hand>>
    BY <1>12 DEF Mark, Start, StartFails, Starting, queueVars, jobVars
  <2>3. status[i] = "dispatching"  BY <1>0, <2>2 DEF TokenInv, InStep
  <2> QED  BY <1>0, <2>1, <2>2, <2>3, Paces DEF Waiting, Starting, Steps
<1>13. CASE StartResolves(w) \/ StartGuessed(w) \/ Record(w)
  <2>1. \E step \in {"record", "clear"} : Go(w, step)
    BY <1>13 DEF StartResolves, StartGuessed, Record
  <2>2. pc[w] \notin {"idle", "release"} /\ UNCHANGED <<status, queue, hand>>
    BY <1>13 DEF StartResolves, StartGuessed, Record, queueVars, jobVars
  <2> QED  BY <1>0, <2>1, <2>2, Paces DEF Waiting, Starting, Steps
<1>14. CASE StartReplyLost(w)  BY <1>14 DEF StartReplyLost
<1>15. CASE RevertClaim(w)
  <2>1. status[i] = "dispatching" /\ i \in Jobs
    BY <1>0, <1>15, HolderOf DEF RevertClaim, TokenInv, InStep, Starting
  <2>2. /\ Go(w, "unmark") /\ UNCHANGED <<queue, hand>> /\ pc[w] = "revert"
        /\ status' = [status EXCEPT ![i] = IF @ = "dispatching" THEN "queued" ELSE @]
    BY <1>0, <1>15 DEF RevertClaim, queueVars
  <2>3. status'[i] = "queued" /\ \A j \in Jobs : j # i => status'[j] = status[j]
    BY <2>1, <2>2 DEF TypeInv, TypeOK
  <2> QED  BY <1>0, <2>2, <2>3, Paces DEF Starting, Steps
<1>16. CASE ClearPending(w)
  <2>1. UNCHANGED <<status, queue, hand>>  BY <1>16 DEF ClearPending, queueVars, jobVars
  <2>2. CASE pc[w] = "clear"
    <3>1. Go(w, "release")  BY <1>16, <2>2 DEF ClearPending
    <3> QED  BY <1>0, <2>1, <2>2, <3>1, Paces DEF Waiting, Starting, Steps
  <2>3. CASE pc[w] = "unmark"
    <3>1. Go(w, "raise") /\ status[i] = "queued"
      BY <1>0, <1>16, <2>3 DEF ClearPending, TokenInv, InStep, Waiting
    <3> QED  BY <1>0, <2>1, <2>3, <3>1, Paces DEF Starting, Steps
  <2> QED  BY <1>16, <2>2, <2>3 DEF ClearPending
<1> QED
  BY <1>1, <1>2, <1>3, <1>4, <1>5, <1>6, <1>7, <1>8, <1>9, <1>10, <1>11, <1>12, <1>13,
     <1>14, <1>15, <1>16 DEF Handler

LEMMA TokenStep ==
  ASSUME {"duplicate", "crash", "replyLost"} \cap Faults = {},
         TypeInv, StartInv, NamedInv, TokenInv, [Next]_vars
  PROVE  TokenInv'
<1>1. ASSUME NEW w \in Workers, Handler(w) \/ Crash(w) PROVE TokenInv'
  BY <1>1, HandlerToken DEF Crash
<1>2. CASE Poison
  <2>1. PICK m \in Message :
          queue[m] > 0 /\ queue' = [queue EXCEPT ![m] = @ - 1] /\ MarkFailed(m.job)
    BY <1>2 DEF Poison
  <2>2. queue'[m] = 0 /\ \A k \in Message \ {m} : queue'[k] = queue[k]
    BY <2>1 DEF TokenInv, Alone, TypeInv, TypeOK
  <2>3. UNCHANGED <<pc, hand>>  BY <1>2 DEF Poison, workerVars
  <2>4. \A j \in Jobs : status'[j] = status[j] \/ j = m.job
    BY <2>1 DEF MarkFailed, TypeInv, TypeOK
  <2> QED  BY <2>1, <2>2, <2>3, <2>4, QueueToken
<1>3. ASSUME NEW j \in Jobs, Duplicate(j) PROVE FALSE
  BY <1>3 DEF Duplicate
<1>4. CASE LeaseExpires \/ GraceExpires \/ ToggleDispatch \/ UNCHANGED vars
  BY <1>4, TokenStands
     DEF LeaseExpires, GraceExpires, ToggleDispatch, vars, jobVars, queueVars, workerVars
<1>5. ASSUME NEW e \in ExecIds, Container(e) PROVE TokenInv'
  <2>1. UNCHANGED <<pc, hand, queue>>
    BY <1>5 DEF Container, Appears, Boots, Ends, Dies, queueVars, workerVars
  <2>2. \A j \in Jobs : status'[j] = status[j] \/ j = execs[e].job
    BY <1>5 DEF Container, Appears, Boots, Ends, Dies, jobVars, TypeInv, TypeOK
  <2> QED  BY <2>1, <2>2, TokenStands
<1> QED  BY <1>1, <1>2, <1>3, <1>4, <1>5 DEF Next

LEMMA TokenInit == Init => StartInv /\ NamedInv /\ TokenInv
<1> SUFFICES ASSUME Init PROVE StartInv /\ NamedInv /\ TokenInv  OBVIOUS
<1>1. StartInv /\ NamedInv
  BY DEF Init, StartInv, NoDoubleStart, ExecIds, Starting, NamedInv, Naming
<1>2. \A m \in Message : queue[m] <= 1 /\ (queue[m] > 0 => m = Fresh(m.job))  BY DEF Init
<1>3. \A m \in Message : m.job \in Jobs  BY DEF Message
<1>4. Alone  BY <1>2 DEF Init, Alone
<1>5. InStep  BY <1>3 DEF Init, InStep, Waiting, Starting
<1> QED  BY <1>1, <1>4, <1>5 DEF TokenInv

LEMMA TokenAlways ==
  ASSUME {"duplicate", "crash", "replyLost"} \cap Faults = {}
  PROVE  Spec => [](TypeInv /\ StartInv /\ NamedInv /\ TokenInv)
<1>1. Init => TypeInv /\ StartInv /\ NamedInv /\ TokenInv  BY TypeInit, TokenInit
<1>2. TypeInv /\ StartInv /\ NamedInv /\ TokenInv /\ [Next]_vars
        => (TypeInv /\ StartInv /\ NamedInv /\ TokenInv)'
  BY TypeStep, StartStep, NamedStep, TokenStep
<1> QED  BY <1>1, <1>2, PTL DEF Spec

LEMMA PhaseMoves ==
  ASSUME execs \in Seq(Exec), NEW e \in ExecIds, NEW p \in Phases, Phase(e, p)
  PROVE  \A f \in ExecIds : execs'[f].phase = IF f = e THEN p ELSE execs[f].phase
<1> DEFINE r == [execs[e] EXCEPT !.phase = p]
<1>1. execs[e] \in Exec  BY DEF ExecIds
<1>2. r.phase = p  BY <1>1 DEF Exec
<1>3. execs' = [execs EXCEPT ![e] = r]  BY DEF Phase
<1> HIDE DEF r
<1>4. \A f \in ExecIds : execs'[f] = IF f = e THEN r ELSE execs[f]  BY <1>3 DEF ExecIds
<1> QED  BY <1>2, <1>4

\* What fails a job, other than its own execution, fails one that is waiting.
LEMMA FailsTheWaiting ==
  ASSUME "crash" \notin Faults, TypeInv, TokenInv, [Next]_vars,
         NEW j \in Jobs, status[j] \notin Terminal, status'[j] = "failed", execs' = execs
  PROVE  status[j] = "queued"
<1>1. ASSUME NEW i, MarkFailed(i) PROVE j = i
  BY <1>1 DEF MarkFailed, Terminal, TypeInv, TypeOK
<1>2. ASSUME NEW w \in Workers, Handler(w) \/ Crash(w) PROVE status[j] = "queued"
  <2>1. AcquireBusy(w) \/ AcquireError(w) \/ CheckCap(w)
    BY <1>2 DEF Handler, Crash, Receive, ReceivePaused, Acquire, ReadRow, Recover, CountActive,
       ApiRaises, Claim, Mark, Start, StartFails, StartResolves, StartGuessed, StartReplyLost,
       Record, RevertClaim, ClearPending, Return, Raise, jobVars, TypeInv, TypeOK, Terminal
  <2>2. pc[w] \in Waiting /\ MarkFailed(JobOf(w))
    BY <2>1 DEF AcquireBusy, AcquireError, CheckCap, DeferJob, Waiting, Terminal
  <2> QED  BY <1>1, <2>2 DEF TokenInv, InStep
<1>3. CASE Poison
  <2>1. PICK m \in Message : queue[m] > 0 /\ MarkFailed(m.job)  BY <1>3 DEF Poison
  <2> QED  BY <1>1, <2>1 DEF TokenInv, InStep
<1>4. ASSUME NEW i \in Jobs, Duplicate(i) PROVE FALSE
  BY <1>4 DEF Duplicate, jobVars, Terminal
<1>5. CASE LeaseExpires \/ GraceExpires \/ ToggleDispatch \/ UNCHANGED vars
  BY <1>5 DEF LeaseExpires, GraceExpires, ToggleDispatch, vars, jobVars, Terminal
<1>6. ASSUME NEW e \in ExecIds, Container(e) PROVE FALSE
  <2>1. PICK p \in Phases : Phase(e, p) /\ execs[e].phase # p
    BY <1>6 DEF Container, Appears, Boots, Ends, Dies, Phases
  <2>2. execs'[e].phase = p  BY <2>1, PhaseMoves DEF TypeInv, TypeOK, Exec
  <2> QED  BY <2>1, <2>2
<1> QED  BY <1>2, <1>3, <1>4, <1>5, <1>6 DEF Next

\* When every message is delivered once, and a start call that raises has started
\* nothing, neither DISPATCH_TIMEOUT nor the poison handler nor a broken lease table ever
\* fails a job that has an execution: through failed starts and APIs, expired leases,
\* wrong guesses of the poller and a paused dispatcher, for any cap and any bounds.
THEOREM OnlyWaitingJobsAreFailed ==
  ASSUME {"duplicate", "crash", "replyLost"} \cap Faults = {}
  PROVE  Spec => NeverFailsARunningJob
<1>1. TypeInv /\ StartInv /\ NamedInv /\ TokenInv /\ [Next]_vars =>
        [\A j \in Jobs :
           (status[j] \notin Terminal /\ status'[j] = "failed" /\ execs' = execs)
             => ~ \E e \in ExecIds : execs[e].job = j /\ Live(e)]_vars
  <2> SUFFICES ASSUME TypeInv, StartInv, TokenInv, [Next]_vars, NEW j \in Jobs,
                      status[j] \notin Terminal, status'[j] = "failed", execs' = execs
               PROVE  ~ \E e \in ExecIds : execs[e].job = j
    OBVIOUS
  <2>1. status[j] = "queued"  BY FailsTheWaiting
  <2> QED  BY <2>1 DEF StartInv
<1> QED  BY <1>1, TokenAlways, PTL DEF Spec, NeverFailsARunningJob

-----------------------------------------------------------------------------
(* The cap. The lease covers the count and the start, the reservation      *)
(* covers the start and its appearance in the list: between them there is  *)
(* always one of the two. The one reservation covers one execution, so the *)
(* argument is for a cap of one, the default of MAX_ACTIVE_GPU_JOBS.       *)

\* Steps of a worker that are shorter than the lease's time to live.
Critical == {"read", "recover", "count", "cap", "claim", "mark", "start"}

Hidden == {e \in ExecIds : execs[e].phase = "hidden"}
Lives == {e \in ExecIds : Live(e)}

LeaseHeld == \A w \in Workers : pc[w] \in Critical => leaseOwner = w /\ leaseLive
Reserved ==
  /\ Hidden # {} => pending
  /\ \A w \in Workers : pc[w] = "start" => pending
\* A worker that still owns the lease may only clear its own reservation.
OwnerKnows ==
  \A w \in Workers : leaseOwner = w =>
    /\ pc[w] \in {"record", "clear", "revert", "unmark"} => Hidden = {}
    /\ pc[w] = "started" => Hidden \subseteq {found[w]}
\* What a worker counted is still so when it claims and when it starts.
CountHolds ==
  \A w \in Workers :
    /\ pc[w] = "cap" /\ count[w] = 0 /\ ~pending => Lives = {}
    /\ pc[w] \in {"claim", "mark", "start"} => Lives = {}
OneLives == \A e, f \in Lives : e = f

CapInv == LeaseHeld /\ Reserved /\ OwnerKnows /\ CountHolds /\ OneLives

LEMMA HiddenLives == Hidden \subseteq Lives
BY DEF Hidden, Lives, Live

\* The workers and the lease stay, and executions only move on.
LEMMA CapShrinks ==
  ASSUME CapInv, UNCHANGED <<pc, leaseOwner, leaseLive, pending, found, count>>,
         Hidden' \subseteq Hidden, Lives' \subseteq Lives
  PROVE  CapInv'
BY DEF CapInv, LeaseHeld, Reserved, OwnerKnows, CountHolds, OneLives

\* A worker takes a step that leaves the lease and the executions alone.
LEMMA CapWalks ==
  ASSUME TypeInv, CapInv, NEW w \in Workers, NEW step \in Steps \ {"start", "started"},
         Go(w, step), UNCHANGED <<leaseOwner, leaseLive, pending, execs>>,
         \A v \in Workers \ {w} : found'[v] = found[v] /\ count'[v] = count[v],
         step \in Critical => pc[w] \in Critical,
         leaseOwner = w /\ step \in {"record", "clear", "revert", "unmark"} => Hidden = {},
         step = "cap" /\ count'[w] = 0 /\ ~pending => Lives = {},
         step \in {"claim", "mark"} => Lives = {}
  PROVE  CapInv'
<1>1. pc'[w] = step /\ \A v \in Workers \ {w} : pc'[v] = pc[v]  BY OthersMove
<1>2. Hidden' = Hidden /\ Lives' = Lives  BY DEF Hidden, Lives, Live, ExecIds
<1>3. LeaseHeld'  BY <1>1 DEF CapInv, LeaseHeld
<1>4. Reserved'  BY <1>1, <1>2 DEF CapInv, Reserved
<1>5. OwnerKnows'
  <2> SUFFICES ASSUME NEW v \in Workers, leaseOwner = v
               PROVE  /\ pc'[v] \in {"record", "clear", "revert", "unmark"} => Hidden = {}
                      /\ pc'[v] = "started" => Hidden \subseteq {found'[v]}
    BY <1>2 DEF OwnerKnows
  <2>1. CASE v = w  BY <1>1, <2>1
  <2>2. CASE v # w  BY <1>1, <2>2 DEF CapInv, OwnerKnows
  <2> QED  BY <2>1, <2>2
<1>6. CountHolds'
  <2> SUFFICES ASSUME NEW v \in Workers
               PROVE  /\ pc'[v] = "cap" /\ count'[v] = 0 /\ ~pending => Lives = {}
                      /\ pc'[v] \in {"claim", "mark", "start"} => Lives = {}
    BY <1>2 DEF CountHolds
  <2>1. CASE v = w  BY <1>1, <2>1
  <2>2. CASE v # w  BY <1>1, <2>2 DEF CapInv, CountHolds
  <2> QED  BY <2>1, <2>2
<1> QED  BY <1>2, <1>3, <1>4, <1>5, <1>6 DEF CapInv, OneLives

\* The holder of the lease is alone in the critical steps.
LEMMA HolderAlone ==
  ASSUME CapInv, NEW w \in Workers, leaseOwner = w \/ pc[w] \in Critical
  PROVE  \A v \in Workers \ {w} : pc[v] \notin Critical
BY DEF CapInv, LeaseHeld

LEMMA AcquireCaps ==
  ASSUME TypeInv, CapInv, NEW w \in Workers, Acquire(w) PROVE CapInv'
<1>1. \A v \in Workers : pc[v] \notin Critical
  BY DispatchConstants DEF Acquire, CapInv, LeaseHeld
<1>2. pc'[w] = "read" /\ \A v \in Workers \ {w} : pc'[v] = pc[v]
  BY OthersMove DEF Acquire
<1>3. leaseOwner' = w /\ leaseLive' /\ UNCHANGED <<pending, execs, found, count>>
  BY DEF Acquire
<1>4. Hidden' = Hidden /\ Lives' = Lives  BY <1>3 DEF Hidden, Lives, Live, ExecIds
<1>5. LeaseHeld'  BY <1>1, <1>2, <1>3 DEF LeaseHeld
<1>6. Reserved'  BY <1>2, <1>3, <1>4 DEF CapInv, Reserved
<1>7. OwnerKnows'  BY <1>2, <1>3 DEF OwnerKnows
<1>8. CountHolds'  BY <1>1, <1>2 DEF CountHolds, Critical
<1> QED  BY <1>4, <1>5, <1>6, <1>7, <1>8 DEF CapInv, OneLives

LEMMA CountCaps ==
  ASSUME TypeInv, CapInv, NEW w \in Workers, CountActive(w) PROVE CapInv'
<1>1. count'[w] = Cardinality(ListedActive) /\ \A v \in Workers \ {w} : count'[v] = count[v]
  BY DEF CountActive, TypeInv, TypeOK
<1>2. ASSUME count'[w] = 0, ~pending PROVE Lives = {}
  <2>1. IsFiniteSet(ListedActive)
    <3>1. execs \in Seq(Exec)  BY DEF TypeInv, TypeOK, Exec
    <3>2. IsFiniteSet(1..Len(execs))  BY <3>1, FS_Interval
    <3>3. ListedActive \subseteq 1..Len(execs)  BY DEF ListedActive, ExecIds
    <3> QED  BY <3>2, <3>3, FS_Subset
  <2>2. ListedActive = {}  BY <1>1, <1>2, <2>1, FS_EmptySet
  <2>3. Hidden = {}  BY <1>2 DEF CapInv, Reserved
  <2>4. ASSUME NEW e \in Lives PROVE FALSE
    <3>1. execs \in Seq(Exec)  BY DEF TypeInv, TypeOK, Exec
    <3>2. e \in ExecIds /\ execs[e].phase # "ended"  BY DEF Lives, Live
    <3>3. execs[e] \in Exec  BY <3>1, <3>2 DEF ExecIds
    <3>4. execs[e].phase \in Phases  BY <3>3 DEF Exec
    <3> QED  BY <2>2, <2>3, <3>2, <3>4 DEF Phases, Hidden, ListedActive
  <2> QED  BY <2>4
<1> QED
  BY <1>1, <1>2, CapWalks DEF CountActive, Steps, Critical, leaseVars

LEMMA CheckCaps ==
  ASSUME MaxActive = 1, TypeInv, CapInv, NEW w \in Workers, CheckCap(w) PROVE CapInv'
<1>1. pc[w] = "cap" /\ UNCHANGED <<leaseOwner, leaseLive, pending, execs, found, count>>
  BY DEF CheckCap, leaseVars
<1>2. CASE AtCap(w)
  BY <1>1, <1>2, CapWalks DEF CheckCap, Steps, Critical
<1>3. CASE ~AtCap(w)
  <2>1. count[w] = 0 /\ ~pending  BY <1>3 DEF AtCap, TypeInv, TypeOK
  <2>2. Lives = {}  BY <1>1, <2>1 DEF CapInv, CountHolds
  <2>3. Go(w, "claim")  BY <1>3 DEF CheckCap
  <2> QED  BY <1>1, <2>2, <2>3, CapWalks DEF Steps, Critical
<1> QED  BY <1>2, <1>3

LEMMA MarkCaps ==
  ASSUME TypeInv, CapInv, NEW w \in Workers, Mark(w) PROVE CapInv'
<1>1. pc[w] = "mark" /\ leaseOwner = w /\ leaseLive
  BY DEF Mark, CapInv, LeaseHeld, Critical
<1>2. pc'[w] = "start" /\ \A v \in Workers \ {w} : pc'[v] = pc[v]
  BY OthersMove DEF Mark
<1>3. pending' /\ UNCHANGED <<leaseOwner, leaseLive, execs, found, count>>
  BY <1>1 DEF Mark
<1>4. Hidden' = Hidden /\ Lives' = Lives  BY <1>3 DEF Hidden, Lives, Live, ExecIds
<1>5. LeaseHeld'  BY <1>1, <1>2, <1>3 DEF CapInv, LeaseHeld
<1>6. Reserved'  BY <1>3 DEF Reserved
<1>7. OwnerKnows'  BY <1>2, <1>3, <1>4 DEF CapInv, OwnerKnows
<1>8. CountHolds'  BY <1>1, <1>2, <1>3, <1>4 DEF CapInv, CountHolds
<1> QED  BY <1>4, <1>5, <1>6, <1>7, <1>8 DEF CapInv, OneLives

LEMMA StartCaps ==
  ASSUME TypeInv, CapInv, NEW w \in Workers, Start(w) PROVE CapInv'
<1>1. pc[w] = "start" /\ leaseOwner = w /\ pending /\ Lives = {}
  BY DEF Start, CapInv, LeaseHeld, Critical, Reserved, CountHolds
<1>2. \A v \in Workers \ {w} : pc[v] \notin Critical  BY <1>1, HolderAlone
<1>3. pc'[w] = "started" /\ \A v \in Workers \ {w} : pc'[v] = pc[v]
  BY OthersMove DEF Start
<1>4. UNCHANGED <<leaseOwner, leaseLive, pending>>  BY DEF Start, leaseVars
<1>5. found'[w] = Len(execs) + 1  BY DEF Start, TypeInv, TypeOK
<1>6. Hidden' \subseteq {Len(execs) + 1} /\ Lives' \subseteq {Len(execs) + 1}
  <2>1. JobOf(w) \in Jobs /\ execs \in Seq(Exec)
    BY <1>1, HolderOf DEF TypeInv, TypeOK, Exec
  <2>2. /\ Len(execs) \in Nat /\ Len(execs') = Len(execs) + 1
        /\ \A e \in 1..Len(execs) : execs'[e] = execs[e]
    BY <2>1, AppendExec DEF Start
  <2>3. ExecIds' = ExecIds \cup {Len(execs) + 1} /\ ExecIds = 1..Len(execs)
    BY <2>2 DEF ExecIds
  <2>4. \A e \in ExecIds : execs'[e].phase = "ended"
    BY <1>1, <2>2, <2>3 DEF Lives, Live
  <2> QED  BY <2>3, <2>4 DEF Hidden, Lives, Live
<1>7. LeaseHeld'  BY <1>2, <1>3 DEF LeaseHeld, Critical
<1>8. Reserved'  BY <1>1, <1>4 DEF Reserved
<1>9. OwnerKnows'  BY <1>1, <1>3, <1>4, <1>5, <1>6 DEF OwnerKnows
<1>10. CountHolds'  BY <1>2, <1>3 DEF CountHolds, Critical
<1>11. OneLives'  BY <1>6 DEF OneLives
<1> QED  BY <1>7, <1>8, <1>9, <1>10, <1>11 DEF CapInv

LEMMA ClearCaps ==
  ASSUME TypeInv, CapInv, NEW w \in Workers, ClearPending(w) PROVE CapInv'
<1>1. /\ pc[w] \in {"clear", "unmark"} /\ pending' = (pending /\ leaseOwner # w)
      /\ UNCHANGED <<leaseOwner, leaseLive, execs, found, count>>
  BY DEF ClearPending
<1>2. PICK step \in {"release", "raise"} : Go(w, step)  BY DEF ClearPending
<1>3. CASE pending' = pending
  BY <1>1, <1>2, <1>3, CapWalks DEF Steps, Critical
<1>4. CASE leaseOwner = w
  <2>1. Hidden = {}  BY <1>1, <1>4 DEF CapInv, OwnerKnows
  <2>2. \A v \in Workers \ {w} : pc[v] \notin Critical  BY <1>4, HolderAlone
  <2>3. pc'[w] = step /\ \A v \in Workers \ {w} : pc'[v] = pc[v]  BY <1>2, OthersMove
  <2>4. Hidden' = Hidden /\ Lives' = Lives  BY <1>1 DEF Hidden, Lives, Live, ExecIds
  <2>5. LeaseHeld'  BY <2>2, <2>3 DEF LeaseHeld, Critical
  <2>6. Reserved'  BY <2>1, <2>2, <2>3, <2>4 DEF Reserved, Critical
  <2>7. OwnerKnows'  BY <1>1, <1>4, <2>1, <2>4 DEF OwnerKnows
  <2>8. CountHolds'  BY <2>2, <2>3 DEF CountHolds, Critical
  <2> QED  BY <2>4, <2>5, <2>6, <2>7, <2>8 DEF CapInv, OneLives
<1> QED  BY <1>1, <1>3, <1>4 DEF TypeInv, TypeOK

LEMMA LeaveCaps ==
  ASSUME TypeInv, CapInv, NEW w \in Workers, Return(w) \/ Raise(w) PROVE CapInv'
<1>1. ReleaseLease(w) /\ Go(w, "idle") /\ UNCHANGED <<pending, execs>>
      /\ \A v \in Workers \ {w} : found'[v] = found[v] /\ count'[v] = count[v]
  BY DEF Return, Raise, TypeInv, TypeOK
<1>2. pc'[w] = "idle" /\ \A v \in Workers \ {w} : pc'[v] = pc[v]  BY <1>1, OthersMove
<1>3. Hidden' = Hidden /\ Lives' = Lives  BY <1>1 DEF Hidden, Lives, Live, ExecIds
<1>4. \A v \in Workers : leaseOwner' = v => v # w /\ leaseOwner = v
  BY <1>1, DispatchConstants DEF ReleaseLease
<1>5. LeaseHeld'
  <2> SUFFICES ASSUME NEW v \in Workers, pc'[v] \in Critical
               PROVE  leaseOwner' = v /\ leaseLive'
    BY DEF LeaseHeld
  <2>1. v # w /\ pc[v] \in Critical  BY <1>2 DEF Critical
  <2>2. leaseOwner = v /\ leaseLive  BY <2>1 DEF CapInv, LeaseHeld
  <2> QED  BY <1>1, <2>1, <2>2 DEF ReleaseLease
<1>6. Reserved'  BY <1>1, <1>2, <1>3 DEF CapInv, Reserved
<1>7. OwnerKnows'  BY <1>1, <1>2, <1>3, <1>4 DEF CapInv, OwnerKnows
<1>8. CountHolds'  BY <1>1, <1>2, <1>3 DEF CapInv, CountHolds
<1> QED  BY <1>3, <1>5, <1>6, <1>7, <1>8 DEF CapInv, OneLives

LEMMA HandlerCaps ==
  ASSUME MaxActive = 1, {"replyLost", "lroFails"} \cap Faults = {},
         TypeInv, StartInv, NamedInv, TokenInv, CapInv, NEW w \in Workers, Handler(w)
  PROVE  CapInv'
<1>1. CASE Receive(w)
  BY <1>1, CapWalks DEF Receive, Steps, Critical, leaseVars
<1>2. CASE ReceivePaused(w)
  BY <1>2, CapShrinks DEF ReceivePaused, leaseVars, workerVars, Hidden, Lives, Live, ExecIds
<1>3. CASE AcquireBusy(w) \/ AcquireError(w)
  BY <1>3, CapWalks DEF AcquireBusy, AcquireError, Steps, Critical, leaseVars
<1>4. CASE ReadRow(w)
  <2>1. PICK i \in Jobs : i = JobOf(w) /\ status[i] = "queued"
    BY <1>4, HolderOf DEF ReadRow, TokenInv, InStep, Waiting
  <2>2. extId[i] = 0  BY <2>1 DEF NamedInv, StartInv
  <2>3. Go(w, "count") /\ pc[w] = "read"  BY <1>4, <2>1, <2>2 DEF ReadRow
  <2>4. /\ UNCHANGED <<leaseOwner, leaseLive, pending, execs, count>>
        /\ \A v \in Workers \ {w} : found'[v] = found[v]
    BY <1>4 DEF ReadRow, leaseVars, TypeInv, TypeOK
  <2> QED  BY <2>3, <2>4, CapWalks DEF Steps, Critical
<1>5. CASE Recover(w)  BY <1>5 DEF Recover, TokenInv, InStep
<1>6. CASE ApiRaises(w)
  BY <1>6, CapWalks DEF ApiRaises, Steps, Critical, leaseVars
<1>7. CASE Claim(w)
  <2>1. pc[w] = "claim" /\ Lives = {}  BY <1>7 DEF Claim, CapInv, CountHolds
  <2>2. \E step \in {"mark", "release"} : Go(w, step)  BY <1>7 DEF Claim
  <2> QED  BY <1>7, <2>1, <2>2, CapWalks DEF Claim, Steps, Critical, leaseVars
<1>8. CASE StartFails(w)
  <2>1. Hidden = {}  BY <1>8, HiddenLives DEF StartFails, CapInv, CountHolds
  <2> QED  BY <1>8, <2>1, CapWalks DEF StartFails, Steps, Critical, leaseVars
<1>9. CASE StartResolves(w)
  <2>1. leaseOwner = w => Hidden = {}
    BY <1>9 DEF StartResolves, CapInv, OwnerKnows, Hidden
  <2> QED  BY <1>9, <2>1, CapWalks DEF StartResolves, Steps, Critical, leaseVars
<1>10. CASE StartGuessed(w) \/ StartReplyLost(w)  BY <1>10 DEF StartGuessed, StartReplyLost
<1>11. CASE Record(w) \/ RevertClaim(w)
  <2>1. leaseOwner = w => Hidden = {}
    BY <1>11 DEF Record, RevertClaim, CapInv, OwnerKnows
  <2>2. \E step \in {"clear", "unmark"} : Go(w, step)  BY <1>11 DEF Record, RevertClaim
  <2> QED  BY <1>11, <2>1, <2>2, CapWalks DEF Record, RevertClaim, Steps, Critical, leaseVars
<1> QED
  BY <1>1, <1>2, <1>3, <1>4, <1>5, <1>6, <1>7, <1>8, <1>9, <1>10, <1>11, AcquireCaps,
     CountCaps, CheckCaps, MarkCaps, StartCaps, ClearCaps, LeaveCaps DEF Handler

LEMMA CapStep ==
  ASSUME MaxActive = 1,
         {"duplicate", "crash", "replyLost", "lroFails", "stall"} \cap Faults = {},
         TypeInv, StartInv, NamedInv, TokenInv, CapInv, [Next]_vars
  PROVE  CapInv'
<1>1. ASSUME NEW w \in Workers, Handler(w) \/ Crash(w) PROVE CapInv'
  BY <1>1, HandlerCaps DEF Crash
<1>2. CASE Poison \/ ToggleDispatch \/ (\E j \in Jobs : Duplicate(j)) \/ UNCHANGED vars
  BY <1>2, CapShrinks
     DEF Poison, ToggleDispatch, Duplicate, vars, leaseVars, workerVars, Hidden, Lives, Live,
         ExecIds
<1>3. CASE LeaseExpires
  <2>1. \A w \in Workers : pc[w] \notin Critical
    BY <1>3 DEF LeaseExpires, CapInv, LeaseHeld, Critical
  <2>2. UNCHANGED <<pc, leaseOwner, pending, found, count, execs>>
    BY <1>3 DEF LeaseExpires, workerVars
  <2>3. Hidden' = Hidden /\ Lives' = Lives  BY <2>2 DEF Hidden, Lives, Live, ExecIds
  <2> QED
    BY <2>1, <2>2, <2>3
       DEF CapInv, LeaseHeld, Reserved, OwnerKnows, CountHolds, OneLives
<1>4. CASE GraceExpires
  <2>1. Hidden = {} /\ \A w \in Workers : pc[w] \notin {"start", "cap"}
    BY <1>4 DEF GraceExpires, Hidden
  <2>2. UNCHANGED <<pc, leaseOwner, leaseLive, found, count, execs>>
    BY <1>4 DEF GraceExpires, workerVars
  <2>3. Hidden' = Hidden /\ Lives' = Lives  BY <2>2 DEF Hidden, Lives, Live, ExecIds
  <2> QED
    BY <2>1, <2>2, <2>3
       DEF CapInv, LeaseHeld, Reserved, OwnerKnows, CountHolds, OneLives
<1>5. ASSUME NEW e \in ExecIds, Container(e) PROVE CapInv'
  <2>1. PICK p \in Phases : Phase(e, p) /\ p # "hidden" /\ execs[e].phase # "ended"
    BY <1>5 DEF Container, Appears, Boots, Ends, Dies, Phases
  <2>2. Len(execs') = Len(execs)
        /\ \A f \in ExecIds : execs'[f].phase = IF f = e THEN p ELSE execs[f].phase
    BY <2>1, PhaseExec, PhaseMoves DEF TypeInv, TypeOK, Exec
  <2>3. ExecIds' = ExecIds  BY <2>2 DEF ExecIds
  <2>4. Hidden' \subseteq Hidden /\ Lives' \subseteq Lives
    BY <2>1, <2>2, <2>3 DEF Hidden, Lives, Live
  <2>5. UNCHANGED <<pc, leaseOwner, leaseLive, pending, found, count>>
    BY <1>5 DEF Container, Appears, Boots, Ends, Dies, leaseVars, workerVars
  <2> QED  BY <2>4, <2>5, CapShrinks
<1> QED  BY <1>1, <1>2, <1>3, <1>4, <1>5 DEF Next

LEMMA CapInit == Init => CapInv
<1> SUFFICES ASSUME Init PROVE CapInv  OBVIOUS
<1>1. Lives = {} /\ Hidden = {}  BY DEF Init, Lives, Hidden, ExecIds
<1> QED
  BY <1>1 DEF Init, CapInv, LeaseHeld, Reserved, OwnerKnows, CountHolds, OneLives, Critical

LEMMA CapAlways ==
  ASSUME MaxActive = 1,
         {"duplicate", "crash", "replyLost", "lroFails", "stall"} \cap Faults = {}
  PROVE  Spec => []CapInv
<1>1. TypeInv /\ StartInv /\ NamedInv /\ TokenInv /\ CapInv /\ [Next]_vars => CapInv'
  BY CapStep
<1>2. {"duplicate", "crash", "replyLost"} \cap Faults = {}  OBVIOUS
<1>3. Spec => [](TypeInv /\ StartInv /\ NamedInv /\ TokenInv)  BY <1>2, TokenAlways
<1> QED  BY <1>1, <1>3, CapInit, PTL DEF Spec

\* With the default cap of one, and workers that reach their start call within the lease's
\* time to live, at most one A100 execution lives at a time: however slowly starts become
\* visible and whichever leases have expired meanwhile, for any number of jobs, workers,
\* deferrals and dequeues. Redelivered messages and the start calls whose name is lost
\* are excluded by name.
THEOREM OneGpuAtATime ==
  ASSUME MaxActive = 1,
         {"duplicate", "crash", "replyLost", "lroFails", "stall"} \cap Faults = {}
  PROVE  Spec => []GpuCap
<1>1. CapInv => GpuCap
  <2> SUFFICES ASSUME CapInv PROVE Cardinality(Lives) <= 1  BY DEF GpuCap, Lives
  <2>1. \A e, f \in Lives : e = f  BY DEF CapInv, OneLives
  <2>2. Lives = {} \/ \E e : Lives = {e}  BY <2>1
  <2>3. Cardinality(Lives) \in {0, 1}  BY <2>2, FS_EmptySet, FS_Singleton
  <2> QED  BY <2>3
<1> QED  BY <1>1, CapAlways, PTL

\* Under the same conditions the reservation outlives the lease: as long as a started
\* execution is not listed, other workers count it.
THEOREM HiddenIsReserved ==
  ASSUME MaxActive = 1,
         {"duplicate", "crash", "replyLost", "lroFails", "stall"} \cap Faults = {}
  PROVE  Spec => []ReservationOutlivesLease
<1>1. CapInv => ReservationOutlivesLease
  BY DEF CapInv, Reserved, Hidden, ReservationOutlivesLease
<1> QED  BY <1>1, CapAlways, PTL
=============================================================================

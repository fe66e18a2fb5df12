----------------------- MODULE TrainingCredits_proofs -----------------------
(***************************************************************************)
(* The credits of an account, for any number of jobs, runs and workers,    *)
(* any balance and every fault: nothing is charged or refunded twice.      *)
(*                                                                         *)
(* The sum is kept because a job is refunded only when it becomes 'failed' *)
(* and a run only when it becomes 'failed', and neither leaves that        *)
(* status. The step that fails a job must know that it was paid for, which *)
(* is why the invariant speaks of every place that remembers a job.        *)
(***************************************************************************)
EXTENDS Training_proofs, FiniteSetTheorems

Paid == {j \in Jobs : job[j] \notin {"absent", "failed"}}
Charged == {t \in Trainings : training[t].charge = 1 /\ training[t].status # "failed"}

\* Some process remembers the job.
Bound(j) ==
  \/ j \in doomed \/ j \in inferring
  \/ \E w \in Workers : worker[w].fused = j
  \/ \E t \in Trainings : training[t].fused = j
  \/ \E e \in ExecIds : execs[e].fused = j

Submitted == \A j \in Jobs : Bound(j) => job[j] # "absent"

\* Only a fused container has a second phase.
SecondPhase ==
  \A e \in ExecIds : execs[e].phase \in {"trained", "generating"} => execs[e].fused \in Jobs

\* A run that was not started has cost nothing.
FreeUntilStarted == \A t \in Trainings : training[t].status = "absent" => training[t].charge = 0

CreditInv == Inv /\ Submitted /\ SecondPhase /\ FreeUntilStarted /\ CreditsConserved

\* What a step must respect.
JobsKept == \A j \in Jobs : job[j] # "absent" => job'[j] # "absent"
BindsSubmitted == \A j \in Jobs : Bound(j)' => Bound(j) \/ job'[j] # "absent"
JobsCalm ==
  \A j \in Jobs : job[j] \in {"absent", "failed"} <=> job'[j] \in {"absent", "failed"}
RunsCalm ==
  \A t \in Trainings :
    /\ training'[t].charge = training[t].charge
    /\ training'[t].status = "failed" <=> training[t].status = "failed"
    /\ training'[t].status = "absent" => training[t].status = "absent"

USE TrainingConstants

-----------------------------------------------------------------------------
(* The sum.                                                                *)

LEMMA Finite ==
  /\ IsFiniteSet(Paid) /\ Cardinality(Paid) \in Nat
  /\ IsFiniteSet(Charged) /\ Cardinality(Charged) \in Nat
<1>1. Paid \subseteq Jobs /\ Charged \subseteq Trainings
  BY DEF Paid, Charged
<1> QED
  BY <1>1, FS_Subset, FS_CardinalityType

LEMMA Sum ==
  CreditsConserved <=> account.balance + Cardinality(Paid) + Cardinality(Charged) = Credits
BY DEF CreditsConserved, Paid, Charged

LEMMA SumNext ==
  CreditsConserved' <=>
    account'.balance + Cardinality(Paid') + Cardinality(Charged') = Credits
BY DEF CreditsConserved, Paid, Charged

LEMMA BalanceType ==
  ASSUME Inv
  PROVE  account.balance \in Nat
BY DEF Inv, RowsOK, Account

LEMMA CalmRuns ==
  ASSUME RunsCalm, FreeUntilStarted
  PROVE  Charged' = Charged /\ FreeUntilStarted'
BY DEF RunsCalm, Charged, FreeUntilStarted

LEMMA CalmJobs ==
  ASSUME JobsCalm
  PROVE  Paid' = Paid
BY DEF JobsCalm, Paid

\* A job is refunded once, on its transition.
LEMMA FailJobSum ==
  ASSUME Inv, CreditsConserved, NEW j \in Jobs, job[j] # "absent", FailJob(j),
         Charged' = Charged
  PROVE  CreditsConserved' /\ JobsKept
<1>1. CASE job[j] \in JobTerminal
  <2>1. UNCHANGED <<job, account>>
    BY <1>1 DEF FailJob
  <2>2. Paid' = Paid
    BY <2>1 DEF Paid
  <2> QED
    BY <2>1, <2>2, Sum, SumNext DEF JobsKept
<1>2. CASE job[j] \notin JobTerminal
  <2>1. /\ job' = [job EXCEPT ![j] = "failed"]
        /\ account' = [account EXCEPT !.balance = @ + 1]
    BY <1>2 DEF FailJob
  <2>2. account'.balance = account.balance + 1 /\ account.balance \in Nat
    BY <2>1 DEF Inv, RowsOK, Account
  <2>3. job \in [Jobs -> JobStatuses]
    BY DEF Inv, RowsOK
  <2>4. j \in Paid /\ Paid' = Paid \ {j} /\ JobsKept
    BY <1>2, <2>1, <2>3 DEF Paid, JobTerminal, JobsKept
  <2>5. Cardinality(Paid') = Cardinality(Paid) - 1
    BY <2>4, Finite, FS_RemoveElement
  <2> QED
    BY <2>2, <2>4, <2>5, Finite, Sum, SumNext
<1> QED
  BY <1>1, <1>2

-----------------------------------------------------------------------------
(* Steps that move no credit.                                              *)

LEMMA SubmittedStep ==
  ASSUME Submitted, JobsKept, BindsSubmitted
  PROVE  Submitted'
BY DEF Submitted, JobsKept, BindsSubmitted

LEMMA Calm ==
  ASSUME CreditInv, Inv', JobsKept, BindsSubmitted, JobsCalm, RunsCalm, SecondPhase',
         account'.balance = account.balance
  PROVE  CreditInv'
BY SubmittedStep, CalmRuns, CalmJobs, Sum, SumNext DEF CreditInv

\* No place remembers a job it did not remember before.
LEMMA SameTies ==
  ASSUME doomed' \subseteq doomed, inferring' \subseteq inferring,
         \A w \in Workers : worker'[w].fused \in {None, worker[w].fused},
         \A t \in Trainings : training'[t].fused = training[t].fused,
         ExecIds' = ExecIds, \A e \in ExecIds : execs'[e].fused = execs[e].fused
  PROVE  BindsSubmitted
BY DEF BindsSubmitted, Bound

LEMMA SameJobs ==
  ASSUME UNCHANGED job
  PROVE  JobsKept /\ JobsCalm
BY DEF JobsKept, JobsCalm

LEMMA SameRuns ==
  ASSUME UNCHANGED training
  PROVE  RunsCalm /\ \A t \in Trainings : training'[t].fused = training[t].fused
BY DEF RunsCalm

LEMMA SameContainers ==
  ASSUME UNCHANGED execs
  PROVE  /\ ExecIds' = ExecIds /\ \A e \in ExecIds : execs'[e].fused = execs[e].fused
         /\ SecondPhase => SecondPhase'
BY DEF ExecIds, SecondPhase

\* A worker rests, or goes on with what it has.
LEMMA WorkerTies ==
  ASSUME WorkersOK, NEW w \in Workers, NEW hand,
         worker' = [worker EXCEPT ![w] = hand], hand.fused \in {None, worker[w].fused}
  PROVE  \A v \in Workers : worker'[v].fused \in {None, worker[v].fused}
BY DEF WorkersOK

LEMMA RestTies ==
  ASSUME WorkersOK, NEW w \in Workers, Rest(w)
  PROVE  \A v \in Workers : worker'[v].fused \in {None, worker[v].fused}
<1>1. Resting.fused = None
  BY DEF Resting
<1> QED
  BY <1>1, WorkerTies DEF Rest

LEMMA GoTies ==
  ASSUME WorkersOK, NEW w \in Workers, NEW pc, Go(w, pc)
  PROVE  \A v \in Workers : worker'[v].fused \in {None, worker[v].fused}
<1> DEFINE hand == [worker[w] EXCEPT !.pc = pc]
<1>1. hand.fused = worker[w].fused
  BY DEF WorkersOK, Hand
<1>2. worker' = [worker EXCEPT ![w] = hand]
  BY DEF Go
<1> HIDE DEF hand
<1> QED
  BY <1>1, <1>2, WorkerTies

\* Looking, delivering, receiving, dying, and giving a model up.
LEMMA IdleCredit ==
  ASSUME CreditInv, Inv', UNCHANGED <<job, training, execs, inferring>>, doomed' \subseteq doomed,
         account'.balance = account.balance,
         \A w \in Workers : worker'[w].fused \in {None, worker[w].fused}
  PROVE  CreditInv'
BY Calm, SameTies, SameJobs, SameRuns, SameContainers DEF CreditInv

LEMMA SameWorkers ==
  ASSUME UNCHANGED worker
  PROVE  \A w \in Workers : worker'[w].fused \in {None, worker[w].fused}
OBVIOUS

LEMMA QuietCredit ==
  ASSUME CreditInv, Inv',
         \/ DeleteAdapter \/ ResetModel \/ Retire
         \/ \E i \in Items : Deliver(i) \/ DeliverTwice(i)
         \/ \E j \in Jobs : SkipParked(j)
         \/ \E t \in Trainings : Look(t) \/ Age(t)
         \/ AlreadyHandled \/ NoRetry \/ WatcherDies
         \/ UNCHANGED vars
  PROVE  CreditInv'
<1>1. UNCHANGED <<job, training, execs, inferring, worker>> /\ doomed' \subseteq doomed
  BY DEF DeleteAdapter, ResetModel, Retire, Deliver, DeliverTwice, SkipParked, Look, Age,
         AlreadyHandled, NoRetry, WatcherDies, WatcherOnly, vars
<1>2. account'.balance = account.balance
  <2>1. account \in Account
    BY DEF CreditInv, Inv, RowsOK
  <2>2. CASE DeleteAdapter \/ ResetModel \/ Retire
    BY <2>1, <2>2 DEF DeleteAdapter, ResetModel, Retire, Account
  <2>3. CASE UNCHANGED account
    BY <2>3
  <2> QED
    BY <2>2, <2>3 DEF Deliver, DeliverTwice, SkipParked, Look, Age, AlreadyHandled, NoRetry,
                      WatcherDies, vars
<1> QED
  BY <1>1, <1>2, IdleCredit, SameWorkers

LEMMA MessageCredit ==
  ASSUME CreditInv, Inv', NEW w \in Workers,
         \/ \E t \in Trainings : Receive(w, t)
         \/ Discard(w) \/ Defer(w) \/ WorkerDies(w)
  PROVE  CreditInv'
<1>1. UNCHANGED <<job, training, execs, inferring, account, doomed>>
  BY DEF Receive, Discard, Defer, WorkerDies
<1>2. \A v \in Workers : worker'[v].fused \in {None, worker[v].fused}
  <2>1. CASE Rest(w)
    BY <2>1, RestTies DEF CreditInv, Inv
  <2>2. ASSUME NEW t \in Trainings, Receive(w, t)
        PROVE  \A v \in Workers : worker'[v].fused \in {None, worker[v].fused}
    <3> DEFINE hand == [Resting EXCEPT !.pc = "held", !.of = t]
    <3>1. hand.fused = None
      BY DEF Resting
    <3>2. worker' = [worker EXCEPT ![w] = hand]
      BY <2>2 DEF Receive
    <3> HIDE DEF hand
    <3> QED
      BY <3>1, <3>2, WorkerTies DEF CreditInv, Inv
  <2> QED
    BY <2>1, <2>2 DEF Discard, Defer, WorkerDies, Return
<1> QED
  BY <1>1, <1>2, IdleCredit

-----------------------------------------------------------------------------
(* Reservations.                                                           *)

LEMMA SubmitCredit ==
  ASSUME CreditInv, Inv', NEW j \in Jobs, Submit(j)
  PROVE  CreditInv'
<1>1. PICK s \in {"queued", "waiting_lora"} : job' = [job EXCEPT ![j] = s]
  BY DEF Submit
<1>2. /\ job \in [Jobs -> JobStatuses] /\ job[j] = "absent" /\ account.balance >= 1
      /\ UNCHANGED <<training, worker, execs, inferring, doomed>>
  BY DEF Submit, CreditInv, Inv, RowsOK
<1>3. JobsKept /\ j \notin Paid /\ Paid' = Paid \cup {j}
  BY <1>1, <1>2 DEF JobsKept, Paid
<1>4. account'.balance = account.balance - 1 /\ account.balance \in Nat
  BY DEF Submit, CreditInv, Inv, RowsOK, Account
<1>5. BindsSubmitted /\ SecondPhase' /\ RunsCalm
  BY <1>2, SameTies, SameRuns, SameContainers, SameWorkers DEF CreditInv
<1>6. Submitted' /\ Charged' = Charged /\ FreeUntilStarted'
  BY <1>3, <1>5, SubmittedStep, CalmRuns DEF CreditInv
<1>7. Cardinality(Paid') = Cardinality(Paid) + 1
  BY <1>3, Finite, FS_AddElement
<1>8. CreditsConserved'
  BY <1>4, <1>6, <1>7, Finite, Sum, SumNext DEF CreditInv
<1> QED
  BY <1>5, <1>6, <1>8 DEF CreditInv

LEMMA StartTrainingCredit ==
  ASSUME CreditInv, Inv', NEW t \in Trainings, NEW force \in BOOLEAN, StartTraining(t, force)
  PROVE  CreditInv'
<1> DEFINE retrain == force /\ account.lora \in {"ready", "failed"}
           charge == IF retrain /\ account.retrains >= FreeRetrains THEN 1 ELSE 0
           row == [training[t] EXCEPT !.status = "queued", !.charge = charge]
<1>1. /\ training' = [training EXCEPT ![t] = row]
      /\ training[t].status = "absent" /\ training[t].charge = 0
      /\ training \in [Trainings -> Row] /\ account \in Account
      /\ UNCHANGED <<job, worker, execs, inferring, doomed>>
  BY DEF StartTraining, CreditInv, Inv, RowsOK, FreeUntilStarted
<1>2. /\ row.status = "queued" /\ row.charge = charge
      /\ row.fused = training[t].fused /\ charge \in {0, 1}
  BY <1>1 DEF Row
<1>3. account'.balance = account.balance - charge /\ account.balance \in Nat
  BY <1>1 DEF StartTraining, Account
<1> HIDE DEF row, charge
<1>4. \A u \in Trainings : training'[u].fused = training[u].fused
  BY <1>1, <1>2
<1>5. BindsSubmitted /\ SecondPhase' /\ JobsKept /\ Paid' = Paid
  BY <1>1, <1>4, SameTies, SameJobs, SameContainers, SameWorkers, CalmJobs DEF CreditInv
<1>6. Submitted' /\ FreeUntilStarted'
  BY <1>1, <1>2, <1>5, SubmittedStep DEF CreditInv, FreeUntilStarted
<1>7. /\ t \notin Charged
      /\ Charged' = IF charge = 1 THEN Charged \cup {t} ELSE Charged
  BY <1>1, <1>2 DEF Charged
<1>8. Cardinality(Charged') = Cardinality(Charged) + charge
  <2>1. CASE charge = 1
    BY <1>7, <2>1, Finite, FS_AddElement
  <2>2. CASE charge = 0
    BY <1>7, <2>2, Finite
  <2> QED
    BY <1>2, <2>1, <2>2
<1>9. CreditsConserved'
  BY <1>2, <1>3, <1>5, <1>8, Finite, Sum, SumNext DEF CreditInv
<1> QED
  BY <1>5, <1>6, <1>9 DEF CreditInv

-----------------------------------------------------------------------------
(* Jobs that fail.                                                         *)

\* A job that some process remembers, or that is being processed, is failed.
LEMMA FailCredit ==
  ASSUME CreditInv, Inv', NEW j \in Jobs, job[j] # "absent", FailJob(j), RunsCalm,
         doomed' \subseteq doomed, inferring' \subseteq inferring, UNCHANGED worker,
         \A t \in Trainings : training'[t].fused = training[t].fused,
         ExecIds' = ExecIds, \A e \in ExecIds : execs'[e].fused = execs[e].fused,
         SecondPhase'
  PROVE  CreditInv'
<1>1. BindsSubmitted
  BY SameTies, SameWorkers
<1>2. Charged' = Charged /\ FreeUntilStarted'
  BY CalmRuns DEF CreditInv
<1>3. CreditsConserved' /\ JobsKept
  BY <1>2, FailJobSum DEF CreditInv
<1> QED
  BY <1>1, <1>2, <1>3, SubmittedStep DEF CreditInv

LEMMA SweepCredit ==
  ASSUME CreditInv, Inv', NEW j \in Jobs, FailParked(j) \/ Reap(j)
  PROVE  CreditInv'
<1>1. job[j] # "absent"
  BY DEF FailParked, Reap, CreditInv, Submitted, Bound
<1>2. /\ FailJob(j) /\ UNCHANGED <<training, worker, execs, inferring>>
      /\ doomed' \subseteq doomed
  BY DEF FailParked, Reap
<1> QED
  BY <1>1, <1>2, FailCredit, SameRuns, SameContainers DEF CreditInv

\* A job goes on, or ends, without its credit.
LEMMA WriteCalm ==
  ASSUME CreditInv, NEW j \in Jobs \cup {None}, NEW s \in {"processing", "completed"},
         j \in Jobs => job[j] # "absent", Write(j, s)
  PROVE  JobsKept /\ JobsCalm
<1>1. job \in [Jobs -> JobStatuses]
  BY DEF CreditInv, Inv, RowsOK
<1> QED
  BY <1>1 DEF Write, JobsKept, JobsCalm, JobTerminal

LEMMA InferenceCredit ==
  ASSUME CreditInv, Inv', NEW j \in Jobs, Serve(j) \/ Infer(j)
  PROVE  CreditInv'
<1>1. CASE Serve(j)
  <2>1. JobsKept /\ JobsCalm
    BY <1>1, SameJobs, WriteCalm DEF Serve
  <2>2. BindsSubmitted
    BY <1>1, <2>1 DEF Serve, BindsSubmitted, Bound, JobsKept, ExecIds
  <2>3. UNCHANGED <<account, training, execs>>
    BY <1>1 DEF Serve
  <2> QED
    BY <2>1, <2>2, <2>3, Calm, SameRuns, SameContainers DEF CreditInv
<1>2. CASE Infer(j)
  <2>1. job[j] # "absent" /\ inferring' \subseteq inferring
    BY <1>2 DEF Infer, CreditInv, Submitted, Bound
  <2>2. UNCHANGED <<training, worker, execs, doomed>>
    BY <1>2 DEF Infer, ContainerOnly
  <2>3. CASE FailJob(j)
    BY <2>1, <2>2, <2>3, FailCredit, SameRuns, SameContainers DEF CreditInv
  <2>4. CASE Write(j, "completed") /\ UNCHANGED account
    <3>1. JobsKept /\ JobsCalm
      BY <2>1, <2>4, WriteCalm
    <3>2. BindsSubmitted
      BY <2>1, <2>2, SameTies, SameRuns, SameContainers, SameWorkers
    <3> QED
      BY <2>2, <2>4, <3>1, <3>2, Calm, SameRuns, SameContainers DEF CreditInv
  <2> QED
    BY <1>2, <2>3, <2>4 DEF Infer
<1> QED
  BY <1>1, <1>2

-----------------------------------------------------------------------------
(* The end of a run.                                                       *)

\* A run that has not ended is ended, and its charge refunded if it failed.
LEMMA SettleCredit ==
  ASSUME CreditInv, Inv', UNCHANGED <<execs, inferring>>,
         \A w \in Workers : worker'[w].fused \in {None, worker[w].fused},
         NEW t \in Trainings, training[t].status \notin {"completed", "failed"},
         NEW ok \in BOOLEAN, NEW lora, NEW usable \in BOOLEAN,
         NEW parked \in SUBSET InStatus({"waiting_lora"}),
         Settle(t, ok, lora, usable, parked)
  PROVE  CreditInv'
<1> DEFINE s == IF ok THEN "completed" ELSE "failed"
           row == [training[t] EXCEPT !.status = s]
<1>1. /\ training' = [training EXCEPT ![t] = row]
      /\ training \in [Trainings -> Row] /\ account \in Account /\ job \in [Jobs -> JobStatuses]
  BY DEF Settle, CreditInv, Inv, RowsOK
<1>2. /\ row.status = s /\ row.charge = training[t].charge
      /\ row.fused = training[t].fused /\ training[t].charge \in {0, 1}
  BY <1>1 DEF Row
<1>3. /\ s \in {"completed", "failed"} /\ (s = "completed" <=> ok)
      /\ account'.balance = IF ok THEN account.balance ELSE account.balance + training[t].charge
      /\ account.balance \in Nat
  BY <1>1 DEF Settle, Account
<1> HIDE DEF row, s
<1>4. /\ \A u \in Trainings : training'[u].fused = training[u].fused
      /\ FreeUntilStarted'
  BY <1>1, <1>2, <1>3 DEF FreeUntilStarted, CreditInv
<1>5. JobsKept /\ JobsCalm
  BY <1>1 DEF Settle, JobsKept, JobsCalm, InStatus
<1>6. BindsSubmitted
  BY <1>1, <1>4, <1>5 DEF Settle, BindsSubmitted, Bound, InStatus, JobsKept, ExecIds
<1>7. Submitted' /\ SecondPhase' /\ Paid' = Paid
  BY <1>5, <1>6, SubmittedStep, SameContainers, CalmJobs DEF CreditInv
<1>8. CASE ok
  <2>1. Charged' = Charged
    BY <1>1, <1>2, <1>3, <1>8 DEF Charged
  <2> QED
    BY <1>3, <1>4, <1>7, <1>8, <2>1, Sum, SumNext DEF CreditInv
<1>9. CASE ~ok
  <2>1. Charged' = Charged \ {t} /\ (t \in Charged <=> training[t].charge = 1)
    BY <1>1, <1>2, <1>3, <1>9 DEF Charged
  <2>2. CASE training[t].charge = 1
    <3>1. Cardinality(Charged') = Cardinality(Charged) - 1
      BY <2>1, <2>2, Finite, FS_RemoveElement
    <3>2. CreditsConserved'
      BY <1>3, <1>7, <1>9, <2>2, <3>1, Finite, Sum, SumNext DEF CreditInv
    <3> QED
      BY <1>4, <1>7, <3>2 DEF CreditInv
  <2>3. CASE training[t].charge = 0
    <3>1. Charged' = Charged
      BY <2>1, <2>3
    <3>2. CreditsConserved'
      BY <1>3, <1>7, <1>9, <2>3, <3>1, Finite, Sum, SumNext DEF CreditInv
    <3> QED
      BY <1>4, <1>7, <3>2 DEF CreditInv
  <2> QED
    BY <1>2, <2>2, <2>3
<1> QED
  BY <1>8, <1>9

LEMMA FinishCredit ==
  ASSUME CreditInv, Inv', UNCHANGED <<execs, inferring>>,
         \A w \in Workers : worker'[w].fused \in {None, worker[w].fused},
         NEW t \in Trainings, NEW ok \in BOOLEAN, Finish(t, ok)
  PROVE  CreditInv'
<1>1. CASE training[t].status \in {"completed", "failed"}
  BY <1>1, IdleCredit DEF Finish
<1>2. CASE training[t].status \notin {"completed", "failed"}
  <2>1. PICK found \in Probe :
          Settle(t, ok, IF ok \/ found THEN "ready" ELSE "failed", ok \/ found,
                 InStatus({"waiting_lora"}))
    BY <1>2 DEF Finish
  <2> DEFINE usable == ok \/ found
             lora == IF usable THEN "ready" ELSE "failed"
             parked == InStatus({"waiting_lora"})
  <2>2. usable \in BOOLEAN /\ parked \in SUBSET InStatus({"waiting_lora"})
    OBVIOUS
  <2>3. Settle(t, ok, lora, usable, parked)
    BY <2>1
  <2> HIDE DEF usable, lora, parked
  <2> QED
    BY <1>2, <2>2, <2>3, SettleCredit
<1> QED
  BY <1>1, <1>2

LEMMA EndCredit ==
  ASSUME CreditInv, Inv',
         \/ \E t \in Trainings : Poison(t)
         \/ \E w \in Workers : GiveUp(w) \/ Reject(w)
         \/ Conclude
  PROVE  CreditInv'
<1>1. ASSUME NEW t \in Trainings, Poison(t) PROVE CreditInv'
  <2>1. FALSE \in BOOLEAN
    OBVIOUS
  <2> QED
    BY <1>1, <2>1, FinishCredit, SameWorkers DEF Poison
<1>2. ASSUME NEW w \in Workers, GiveUp(w) \/ Reject(w) PROVE CreditInv'
  <2>1. Of(w) \in Trainings /\ FALSE \in BOOLEAN
    BY <1>2 DEF GiveUp, Reject, CreditInv, Inv, HasRun, At
  <2>2. Finish(Of(w), FALSE) /\ Rest(w) /\ UNCHANGED <<execs, inferring>>
    BY <1>2 DEF GiveUp, Reject
  <2>3. \A v \in Workers : worker'[v].fused \in {None, worker[v].fused}
    BY <2>2, RestTies DEF CreditInv, Inv
  <2> QED
    BY <2>1, <2>2, <2>3, FinishCredit
<1>3. CASE Conclude
  <2>1. watch.of \in Trainings /\ (watch.verdict = "ok") \in BOOLEAN
    BY <1>3 DEF Conclude, CreditInv, Inv, HasRun
  <2> QED
    BY <1>3, <2>1, FinishCredit, SameWorkers DEF Conclude, WatcherOnly
<1> QED
  BY <1>1, <1>2, <1>3

-----------------------------------------------------------------------------
(* Dispatch: claims, starts and what follows them move no credit.          *)

\* One run changes, and neither its charge nor whether it failed.
LEMMA OneRunCalm ==
  ASSUME CreditInv, NEW t \in Trainings, NEW row, training' = [training EXCEPT ![t] = row],
         row.charge = training[t].charge,
         row.status \in InFlight, training[t].status \in InFlight
  PROVE  RunsCalm
BY DEF RunsCalm, InFlight, CreditInv, Inv, RowsOK

\* One job that was submitted changes its status, not to 'failed' nor from it.
LEMMA OneJobCalm ==
  ASSUME CreditInv, NEW j \in Jobs, NEW s \in {"queued", "waiting_lora", "processing"},
         job' = [job EXCEPT ![j] = s], job[j] \notin {"absent", "failed"}
  PROVE  JobsKept /\ JobsCalm
BY DEF JobsKept, JobsCalm, CreditInv, Inv, RowsOK

LEMMA ClaimCredit ==
  ASSUME CreditInv, Inv', NEW w \in Workers, Claim(w)
  PROVE  CreditInv'
<1> DEFINE row == [training[Of(w)] EXCEPT !.status = "dispatching"]
<1>1. /\ Of(w) \in Trainings /\ training[Of(w)] \in Row /\ training[Of(w)].status \in InFlight
      /\ training' = [training EXCEPT ![Of(w)] = row] /\ training \in [Trainings -> Row]
      /\ UNCHANGED <<account, job, execs, inferring, doomed>>
  BY DEF Claim, CreditInv, Inv, HasRun, At, RowsOK, InFlight
<1>2. row.charge = training[Of(w)].charge /\ row.fused = training[Of(w)].fused
      /\ row.status \in InFlight
  BY <1>1 DEF Row, InFlight
<1> HIDE DEF row
<1>3. RunsCalm /\ \A t \in Trainings : training'[t].fused = training[t].fused
  BY <1>1, <1>2, OneRunCalm
<1>4. BindsSubmitted
  BY <1>1, <1>3, SameTies, SameContainers, GoTies DEF Claim, CreditInv, Inv
<1> QED
  BY <1>1, <1>3, <1>4, Calm, SameJobs, SameContainers DEF CreditInv

\* A worker goes on to start a container for a job, or for none.
LEMMA BindTies ==
  ASSUME WorkersOK, NEW w \in Workers, NEW j, Bind(w, j)
  PROVE  \A v \in Workers : worker'[v].fused \in {j, worker[v].fused}
<1> DEFINE hand == [worker[w] EXCEPT !.pc = "start", !.fused = j]
<1>1. hand.fused = j
  BY DEF WorkersOK, Hand
<1>2. worker' = [worker EXCEPT ![w] = hand]
  BY DEF Bind
<1> HIDE DEF hand
<1> QED
  BY <1>1, <1>2 DEF WorkersOK

LEMMA FuseCredit ==
  ASSUME CreditInv, Inv', NEW w \in Workers, FuseNew(w) \/ FuseAgain(w) \/ TrainOnly(w)
  PROVE  CreditInv'
<1>1. UNCHANGED <<account, execs, inferring, doomed>>
  BY DEF FuseNew, FuseAgain, TrainOnly
<1>2. Of(w) \in Trainings /\ training \in [Trainings -> Row] /\ WorkersOK
  BY DEF FuseNew, FuseAgain, TrainOnly, CreditInv, Inv, HasRun, At, RowsOK
<1>3. CASE FuseNew(w)
  <2>1. PICK j \in Jobs : /\ job[j] = "waiting_lora"
                          /\ job' = [job EXCEPT ![j] = "processing"]
                          /\ training' = [training EXCEPT ![Of(w)].fused = j]
                          /\ Bind(w, j)
    BY <1>3 DEF FuseNew, InStatus
  <2>2. JobsKept /\ JobsCalm
    BY <2>1, OneJobCalm
  <2>3. RunsCalm /\ \A t \in Trainings : training'[t].fused \in {j, training[t].fused}
    BY <1>2, <2>1 DEF RunsCalm, Row
  <2>4. BindsSubmitted
    BY <1>1, <1>2, <2>1, <2>2, <2>3, BindTies DEF BindsSubmitted, Bound, ExecIds, JobsKept
  <2> QED
    BY <1>1, <2>2, <2>3, <2>4, Calm, SameContainers DEF CreditInv
<1>4. CASE FuseAgain(w)
  <2> DEFINE j == training[Of(w)].fused
  <2>1. /\ j \in Jobs /\ job[j] \in {"processing", "waiting_lora"}
        /\ job' = [job EXCEPT ![j] = "processing"] /\ Bind(w, j) /\ UNCHANGED training
    BY <1>2, <1>4 DEF FuseAgain, Row
  <2> HIDE DEF j
  <2>2. JobsKept /\ JobsCalm
    BY <2>1, OneJobCalm
  <2>3. BindsSubmitted
    BY <1>1, <1>2, <2>1, <2>2, BindTies DEF BindsSubmitted, Bound, ExecIds, JobsKept
  <2> QED
    BY <1>1, <2>1, <2>2, <2>3, Calm, SameRuns, SameContainers DEF CreditInv
<1>5. CASE TrainOnly(w)
  <2>1. UNCHANGED <<job, training>> /\ Bind(w, None)
    BY <1>5 DEF TrainOnly
  <2>2. \A v \in Workers : worker'[v].fused \in {None, worker[v].fused}
    BY <1>2, <2>1, BindTies
  <2> QED
    BY <1>1, <2>1, <2>2, IdleCredit
<1> QED
  BY <1>3, <1>4, <1>5

\* An execution is added, and remembers the job of the worker that started it.
LEMMA LaunchTies ==
  ASSUME CreditInv, NEW w \in Workers, Launch(w),
         UNCHANGED <<training, inferring, doomed>>,
         \A v \in Workers : worker'[v].fused = worker[v].fused
  PROVE  BindsSubmitted /\ SecondPhase'
<1> DEFINE new == [of |-> Of(w), fused |-> worker[w].fused, phase |-> "training"]
<1>1. execs \in Seq(Execution) /\ execs' = Append(execs, new)
  BY DEF CreditInv, Inv, ContainersOK, Launch
<1>2. new.fused = worker[w].fused /\ new.phase = "training"
  OBVIOUS
<1> HIDE DEF new
<1>3. \A e \in ExecIds' : (e \in ExecIds /\ execs'[e] = execs[e]) \/ execs'[e] = new
  BY <1>1 DEF ExecIds
<1>4. BindsSubmitted
  BY <1>2, <1>3 DEF BindsSubmitted, Bound
<1>5. SecondPhase'
  BY <1>2, <1>3 DEF SecondPhase, CreditInv
<1> QED
  BY <1>4, <1>5

LEMMA StartCredit ==
  ASSUME CreditInv, Inv', NEW w \in Workers, Start(w) \/ StartRaises(w)
  PROVE  CreditInv'
<1>1. UNCHANGED <<account, job, training, inferring, doomed>>
  BY DEF Start, StartRaises
<1>2. \A v \in Workers : worker'[v].fused = worker[v].fused
  BY DEF Start, StartRaises, Go, CreditInv, Inv, WorkersOK, Hand
<1>3. CASE Launch(w)
  BY <1>1, <1>2, <1>3, LaunchTies, Calm, SameJobs, SameRuns
<1>4. CASE UNCHANGED execs
  BY <1>1, <1>2, <1>4, IdleCredit
<1> QED
  BY <1>3, <1>4 DEF Start, StartRaises

LEMMA AfterStartCredit ==
  ASSUME CreditInv, Inv', NEW w \in Workers, Unclaim(w) \/ Revert(w) \/ Record(w)
  PROVE  CreditInv'
<1>1. Of(w) \in Trainings /\ training \in [Trainings -> Row] /\ WorkersOK
  BY DEF Unclaim, Revert, Record, CreditInv, Inv, HasRun, At, RowsOK
<1>2. UNCHANGED <<account, execs, inferring, doomed>>
  BY DEF Unclaim, Revert, Record
<1>3. CASE Unclaim(w)
  <2>1. Go(w, "revert") /\ UNCHANGED training
    BY <1>3 DEF Unclaim
  <2>2. JobsKept /\ JobsCalm
    BY <1>3 DEF Unclaim, JobsKept, JobsCalm, CreditInv, Inv, RowsOK
  <2>3. BindsSubmitted
    BY <1>1, <1>2, <2>1, SameTies, SameRuns, SameContainers, GoTies
  <2> QED
    BY <1>2, <2>1, <2>2, <2>3, Calm, SameRuns, SameContainers DEF CreditInv
<1>4. ASSUME UNCHANGED job, Rest(w), NEW row, training' = [training EXCEPT ![Of(w)] = row],
             row.charge = training[Of(w)].charge, row.fused = training[Of(w)].fused,
             \/ row.status = training[Of(w)].status
             \/ row.status \in InFlight /\ training[Of(w)].status \in InFlight
      PROVE  CreditInv'
  <2>1. RunsCalm /\ \A t \in Trainings : training'[t].fused = training[t].fused
    BY <1>1, <1>4 DEF RunsCalm, InFlight
  <2>2. BindsSubmitted
    BY <1>1, <1>2, <1>4, <2>1, SameTies, SameContainers, RestTies
  <2> QED
    BY <1>2, <1>4, <2>1, <2>2, Calm, SameJobs, SameContainers DEF CreditInv
<1>5. CASE Revert(w)
  <2> DEFINE old == training[Of(w)]
             row == [old EXCEPT !.status = IF @ = "dispatching" THEN "queued" ELSE @]
  <2>1. /\ row.charge = old.charge /\ row.fused = old.fused
        /\ row.status = old.status \/ (row.status \in InFlight /\ old.status \in InFlight)
    BY <1>1 DEF Row, InFlight
  <2>2. training' = [training EXCEPT ![Of(w)] = row] /\ Rest(w) /\ UNCHANGED job
    BY <1>5 DEF Revert, Return
  <2> HIDE DEF row
  <2> QED
    BY <1>4, <2>1, <2>2
<1>6. CASE Record(w)
  <2> DEFINE old == training[Of(w)]
             new == [old EXCEPT !.status = "training", !.exec = worker[w].exec]
             row == IF old.status = "dispatching" /\ old.exec = None THEN new ELSE old
  <2>1. /\ row.charge = old.charge /\ row.fused = old.fused
        /\ row.status = old.status \/ (row.status \in InFlight /\ old.status \in InFlight)
    BY <1>1 DEF Row, InFlight
  <2>2. training' = [training EXCEPT ![Of(w)] = row] /\ Rest(w) /\ UNCHANGED job
    BY <1>6 DEF Record
  <2> HIDE DEF row
  <2> QED
    BY <1>4, <2>1, <2>2
<1> QED
  BY <1>3, <1>5, <1>6

-----------------------------------------------------------------------------
(* The containers.                                                         *)

\* A phase changes: the job stays the same.
LEMMA PhaseTies ==
  ASSUME CreditInv, NEW e \in ExecIds,
         NEW p \in {"trained", "generating"} \cup Ended, Phase(e, p),
         p \notin Ended => execs[e].fused \in Jobs
  PROVE  /\ ExecIds' = ExecIds /\ \A x \in ExecIds : execs'[x].fused = execs[x].fused
         /\ SecondPhase'
<1> DEFINE new == [execs[e] EXCEPT !.phase = p]
<1>1. execs \in Seq(Execution) /\ execs[e] \in Execution
  BY DEF CreditInv, Inv, ContainersOK, ExecIds
<1>2. new.fused = execs[e].fused /\ new.phase = p
  BY <1>1 DEF Execution
<1>3. execs' = [execs EXCEPT ![e] = new]
  BY DEF Phase
<1> HIDE DEF new
<1>4. ExecIds' = ExecIds /\ execs'[e] = new /\ \A x \in ExecIds : x # e => execs'[x] = execs[x]
  BY <1>1, <1>3 DEF ExecIds
<1>5. \A x \in ExecIds : execs'[x].fused = execs[x].fused
  BY <1>2, <1>4
<1>6. SecondPhase'
  BY <1>2, <1>4 DEF SecondPhase, CreditInv, Ended
<1> QED
  BY <1>4, <1>5, <1>6

LEMMA ContainerCredit ==
  ASSUME CreditInv, Inv', NEW e \in ExecIds,
         \/ Run(e) \/ NeverRuns(e) \/ TrainingFails(e) \/ GenerationFails(e) \/ Dies(e)
  PROVE  CreditInv'
<1>1. UNCHANGED <<training, worker, doomed, inferring>>
  BY DEF Run, Trained, Generate, Generated, NeverRuns, TrainingFails, GenerationFails, Dies,
         ContainerOnly
<1>2. execs[e].fused \in Jobs \cup {None} /\ account \in Account
  <2>1. execs \in Seq(Execution) /\ account \in Account
    BY DEF CreditInv, Inv, ContainersOK, RowsOK
  <2>2. execs[e] \in Execution
    BY <2>1 DEF ExecIds
  <2> QED
    BY <2>1, <2>2 DEF Execution
<1>3. execs[e].fused \in Jobs => job[execs[e].fused] # "absent"
  BY DEF CreditInv, Submitted, Bound
<1>4. execs[e].phase \in {"trained", "generating"} => execs[e].fused \in Jobs
  BY DEF CreditInv, SecondPhase
<1>5. ASSUME NEW p \in {"trained", "generating"} \cup Ended, Phase(e, p),
             p \notin Ended => execs[e].fused \in Jobs,
             JobsKept, JobsCalm, account'.balance = account.balance
      PROVE  CreditInv'
  <2>1. BindsSubmitted /\ SecondPhase'
    BY <1>1, <1>5, PhaseTies, SameTies, SameRuns, SameWorkers
  <2> QED
    BY <1>1, <1>5, <2>1, Calm, SameRuns
<1>6. CASE Trained(e)
  <2>1. account'.balance = account.balance /\ UNCHANGED job
    BY <1>2, <1>6 DEF Trained, Account
  <2>2. PICK p \in {"trained"} \cup Ended : /\ Phase(e, p)
                                            /\ p \notin Ended => execs[e].fused \in Jobs
    BY <1>2, <1>6 DEF Trained, Ended
  <2> QED
    BY <1>5, <2>1, <2>2, SameJobs
<1>7. CASE Generate(e)
  <2>1. UNCHANGED account /\ JobsKept /\ JobsCalm
    BY <1>2, <1>3, <1>7, WriteCalm DEF Generate
  <2>2. PICK p \in {"generating"} \cup Ended : Phase(e, p)
    BY <1>7 DEF Generate, Ended
  <2>3. execs[e].fused \in Jobs
    BY <1>4, <1>7 DEF Generate
  <2> QED
    BY <1>5, <2>1, <2>2, <2>3
<1>8. CASE Generated(e)
  <2>1. UNCHANGED account /\ JobsKept /\ JobsCalm
    BY <1>2, <1>3, <1>8, WriteCalm DEF Generated
  <2>2. Phase(e, "succeeded") /\ "succeeded" \in Ended
    BY <1>8 DEF Generated, Ended
  <2> QED
    BY <1>5, <2>1, <2>2
<1>9. CASE GenerationFails(e)
  <2>1. FailJob(execs[e].fused) /\ execs[e].fused \in Jobs
    BY <1>4, <1>9 DEF GenerationFails
  <2>2. Phase(e, "failed") /\ "failed" \in Ended
    BY <1>9 DEF GenerationFails, Ended
  <2> QED
    BY <1>1, <1>3, <2>1, <2>2, FailCredit, PhaseTies, SameRuns
<1>10. CASE NeverRuns(e) \/ TrainingFails(e) \/ Dies(e)
  <2>1. UNCHANGED <<account, job>>
    BY <1>10 DEF NeverRuns, TrainingFails, Dies
  <2>2. PICK p \in Ended : Phase(e, p)
    BY <1>10 DEF NeverRuns, TrainingFails, Dies, Ended
  <2> QED
    BY <1>5, <2>1, <2>2, SameJobs
<1> QED
  BY <1>6, <1>7, <1>8, <1>9, <1>10 DEF Run

-----------------------------------------------------------------------------
(* A run that never reached its container.                                 *)

LEMMA RetryCredit ==
  ASSUME CreditInv, Inv', Retry
  PROVE  CreditInv'
<1> DEFINE old == training[watch.of]
           new == [old EXCEPT !.status = "queued", !.exec = None,
                              !.history = @ \cup {watch.exec}]
<1>1. /\ watch.of \in Trainings /\ old \in Row /\ old.status \in InFlight
      /\ training' = [training EXCEPT ![watch.of] = new] /\ training \in [Trainings -> Row]
      /\ UNCHANGED <<account, doomed, worker, execs, inferring>>
  BY DEF Retry, WatcherOnly, CreditInv, Inv, HasRun, RowsOK
<1>2. /\ new.charge = old.charge /\ new.fused = old.fused /\ new.status \in InFlight
  BY <1>1 DEF Row, InFlight
<1> HIDE DEF new
<1>3. RunsCalm /\ \A t \in Trainings : training'[t].fused = training[t].fused
  BY <1>1, <1>2, OneRunCalm
<1>4. JobsKept /\ JobsCalm
  <2>1. CASE old.fused = None
    BY <2>1, SameJobs DEF Retry
  <2>2. CASE old.fused # None
    <3>1. /\ old.fused \in Jobs /\ job[old.fused] = "processing"
          /\ job' = [job EXCEPT ![old.fused] = "waiting_lora"]
      BY <1>1, <2>2 DEF Retry, Reclaimable, Row
    <3> QED
      BY <3>1, OneJobCalm
  <2> QED
    BY <2>1, <2>2
<1>5. BindsSubmitted
  BY <1>1, <1>3, SameTies, SameContainers, SameWorkers
<1> QED
  BY <1>1, <1>3, <1>4, <1>5, Calm, SameContainers DEF CreditInv

LEMMA ExhaustCredit ==
  ASSUME CreditInv, Inv', Exhaust
  PROVE  CreditInv'
<1> DEFINE old == training[watch.of]
           new == [old EXCEPT !.history = @ \cup {watch.exec}]
<1>1. /\ watch.of \in Trainings /\ old \in Row /\ training \in [Trainings -> Row]
      /\ training' = [training EXCEPT ![watch.of] = new] \/ UNCHANGED training
      /\ UNCHANGED <<doomed, worker, execs, inferring>>
  BY DEF Exhaust, WatcherOnly, CreditInv, Inv, HasRun, RowsOK
<1>2. new.charge = old.charge /\ new.fused = old.fused /\ new.status = old.status
  BY <1>1 DEF Row
<1> HIDE DEF new
<1>3. RunsCalm /\ \A t \in Trainings : training'[t].fused = training[t].fused
  BY <1>1, <1>2 DEF RunsCalm
<1>4. CASE old.fused # None /\ Reclaimable(old.fused)
  <2>1. old.fused \in Jobs /\ job[old.fused] # "absent" /\ FailJob(old.fused)
    BY <1>1, <1>4 DEF Exhaust, Reclaimable, Row
  <2> QED
    BY <1>1, <1>3, <2>1, FailCredit, SameContainers DEF CreditInv
<1>5. CASE ~(old.fused # None /\ Reclaimable(old.fused))
  <2>1. UNCHANGED <<job, account>>
    BY <1>5 DEF Exhaust
  <2>2. BindsSubmitted
    BY <1>1, <1>3, SameTies, SameContainers, SameWorkers
  <2> QED
    BY <1>1, <1>3, <2>1, <2>2, Calm, SameJobs, SameContainers DEF CreditInv
<1> QED
  BY <1>4, <1>5

LEMMA ConcludeExhaustedCredit ==
  ASSUME CreditInv, Inv', ConcludeExhausted
  PROVE  CreditInv'
<1>1. watch.of \in Trainings /\ WatcherOnly
  BY DEF ConcludeExhausted, CreditInv, Inv, HasRun
<1>2. PICK lora : FinishUnswept(watch.of, lora)
  BY DEF ConcludeExhausted
<1>3. CASE training[watch.of].status \in {"completed", "failed"}
  BY <1>1, <1>2, <1>3, IdleCredit, SameWorkers DEF FinishUnswept, WatcherOnly
<1>4. CASE training[watch.of].status \notin {"completed", "failed"}
  <2>1. Settle(watch.of, FALSE, lora, FALSE, {})
    BY <1>2, <1>4 DEF FinishUnswept
  <2>2. FALSE \in BOOLEAN /\ {} \in SUBSET InStatus({"waiting_lora"})
    OBVIOUS
  <2> QED
    BY <1>1, <1>4, <2>1, <2>2, SettleCredit, SameWorkers DEF WatcherOnly
<1> QED
  BY <1>3, <1>4

-----------------------------------------------------------------------------
LEMMA InitCredit == Init => CreditInv
<1> SUFFICES ASSUME Init PROVE CreditInv
  OBVIOUS
<1>1. Inv
  BY InitInv
<1>2. Submitted /\ SecondPhase /\ FreeUntilStarted
  BY DEF Init, Submitted, Bound, SecondPhase, FreeUntilStarted, ExecIds, Resting, NoRow
<1>3. Paid = {} /\ Charged = {} /\ account.balance = Credits
  BY DEF Init, Paid, Charged, NoRow
<1>4. CreditsConserved
  BY <1>3, Sum, FS_EmptySet
<1> QED
  BY <1>1, <1>2, <1>4 DEF CreditInv

LEMMA NextCredit == CreditInv /\ [Next]_vars => CreditInv'
<1> SUFFICES ASSUME CreditInv, [Next]_vars PROVE CreditInv'
  OBVIOUS
<1> Inv'
  BY NextInv DEF CreditInv
<1>1. ASSUME NEW j \in Jobs,
             Submit(j) \/ FailParked(j) \/ SkipParked(j) \/ Serve(j) \/ Infer(j) \/ Reap(j)
      PROVE  CreditInv'
  BY <1>1, SubmitCredit, SweepCredit, QuietCredit, InferenceCredit
<1>2. ASSUME NEW t \in Trainings,
             \/ Poison(t) \/ Look(t) \/ Age(t)
             \/ \E force \in BOOLEAN : StartTraining(t, force)
      PROVE  CreditInv'
  BY <1>2, EndCredit, QuietCredit, StartTrainingCredit
<1>3. CASE DeleteAdapter \/ ResetModel \/ Retire \/ UNCHANGED vars
  BY <1>3, QuietCredit
<1>4. ASSUME NEW i \in Items, Deliver(i) \/ DeliverTwice(i)
      PROVE  CreditInv'
  BY <1>4, QuietCredit
<1>5. ASSUME NEW w \in Workers,
             \/ \E t \in Trainings : Receive(w, t)
             \/ Work(w) \/ Defer(w) \/ GiveUp(w) \/ Reject(w) \/ WorkerDies(w)
      PROVE  CreditInv'
  BY <1>5, MessageCredit, EndCredit, ClaimCredit, FuseCredit, StartCredit, AfterStartCredit
     DEF Work
<1>6. ASSUME NEW e \in ExecIds,
             Run(e) \/ NeverRuns(e) \/ TrainingFails(e) \/ GenerationFails(e) \/ Dies(e)
      PROVE  CreditInv'
  BY <1>6, ContainerCredit
<1>7. CASE Watch \/ WatcherDies
  BY <1>7, EndCredit, RetryCredit, ExhaustCredit, ConcludeExhaustedCredit, QuietCredit DEF Watch
<1> QED
  BY <1>1, <1>2, <1>3, <1>4, <1>5, <1>6, <1>7 DEF Next

LEMMA CreditInvariance == Spec => []CreditInv
BY InitCredit, NextCredit, PTL DEF Spec

\* At every moment each credit the customer had is on the balance, in a job that did not
\* fail or in a training that did not fail: whatever workers, containers, timers, messages
\* and the customer do, nothing is charged or refunded twice.
THEOREM CreditsAreConserved == Spec => []CreditsConserved
<1>1. CreditInv => CreditsConserved
  BY DEF CreditInv
<1> QED
  BY <1>1, CreditInvariance, PTL
=============================================================================

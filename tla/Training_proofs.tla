--------------------------- MODULE Training_proofs ---------------------------
(***************************************************************************)
(* Theorems about Training, for any number of jobs, runs and workers, any  *)
(* balance, caps and budget. With every fault: its types, that a run never *)
(* changes the job it is fused with, and that nothing queued lacks a       *)
(* message. Under the faults each theorem names: that 'ready' has an       *)
(* adapter, that a parked job waits for something, and that one container  *)
(* at a time generates a job.                                              *)
(***************************************************************************)
EXTENDS Training, FiniteSetTheorems, TLAPS

JobStatuses == {"absent", "waiting_lora", "queued", "processing"} \cup JobTerminal
Account == [lora : {"none", "training", "ready", "failed"}, retrains : Nat, balance : Nat,
            adapter : BOOLEAN]
Row == [status : {"absent", "completed", "failed"} \cup InFlight,
        exec : ExecIds \cup {None}, fused : Jobs \cup {None}, charge : {0, 1},
        history : SUBSET ExecIds]
Hand == [pc : {"idle", "held", "fuse", "start", "unclaim", "revert", "record"},
         of : Trainings \cup {None}, fused : Jobs \cup {None}, exec : ExecIds \cup {None}]
Execution == [of : Trainings, fused : Jobs \cup {None},
              phase : {"training", "trained", "generating"} \cup Ended]
Sight == [of : Trainings \cup {None}, exec : ExecIds \cup {None},
          verdict : {"none", "ok", "failed", "neverRan", "spent", "exhausted"}]

\* The parts of the type invariant.
RowsOK == /\ account \in Account
          /\ job \in [Jobs -> JobStatuses]
          /\ training \in [Trainings -> Row]
          /\ doomed \subseteq Jobs
MessagesOK == owed \in [Items -> Nat] /\ queue \in [Items -> Nat] /\ poisoned \subseteq Trainings
WorkersOK == worker \in [Workers -> Hand]
ContainersOK == execs \in Seq(Execution) /\ inferring \subseteq Jobs
WatcherOK == watch \in Sight

\* A worker that is not idle and a watcher that has concluded something have a run, and
\* a run that is retried or exhausted has an execution.
HasRun ==
  /\ \A w \in Workers : ~At(w, "idle") => Of(w) \in Trainings
  /\ watch.verdict # "none" => watch.of \in Trainings
  /\ watch.verdict \in {"neverRan", "spent", "exhausted"} => watch.exec \in ExecIds

Inv == RowsOK /\ MessagesOK /\ WorkersOK /\ ContainersOK /\ WatcherOK /\ HasRun

USE TrainingConstants

-----------------------------------------------------------------------------
(* What the transactions return.                                           *)

LEMMA OweType ==
  ASSUME owed \in [Items -> Nat], NEW items, Owe(items)
  PROVE  owed' \in [Items -> Nat]
BY DEF Owe

LEMMA EnqueueType ==
  ASSUME queue \in [Items -> Nat], NEW i \in Items, Enqueue(i)
  PROVE  queue' \in [Items -> Nat]
BY DEF Enqueue

LEMMA FailJobType ==
  ASSUME account \in Account, job \in [Jobs -> JobStatuses], NEW j, FailJob(j)
  PROVE  account' \in Account /\ job' \in [Jobs -> JobStatuses]
BY DEF FailJob, Account, JobStatuses, JobTerminal

LEMMA AdapterType ==
  ASSUME account \in Account, NEW here \in BOOLEAN,
         account' = [account EXCEPT !.adapter = here]
  PROVE  account' \in Account
BY DEF Account

LEMMA WriteType ==
  ASSUME job \in [Jobs -> JobStatuses], NEW j, NEW s \in JobStatuses, Write(j, s)
  PROVE  job' \in [Jobs -> JobStatuses]
BY DEF Write

\* The transaction that ends a run changes its status and no link.
LEMMA SettleType ==
  ASSUME RowsOK, MessagesOK, UNCHANGED execs,
         NEW t \in Trainings, NEW ok \in BOOLEAN, NEW lora \in {"ready", "failed"},
         NEW usable \in BOOLEAN, NEW parked \in SUBSET Jobs,
         Settle(t, ok, lora, usable, parked)
  PROVE  RowsOK' /\ owed' \in [Items -> Nat]
<1>1. /\ account' = [account EXCEPT !.lora = lora,
                       !.balance = IF ok THEN @ ELSE @ + training[t].charge]
      /\ training' = [training EXCEPT ![t].status = IF ok THEN "completed" ELSE "failed"]
  BY DEF Settle
<1>2. training[t].charge \in Nat
  BY DEF RowsOK, Row
<1>3. account' \in Account
  <2> DEFINE balance == IF ok THEN account.balance ELSE account.balance + training[t].charge
  <2>1. account \in Account /\ balance \in Nat
    BY <1>2 DEF RowsOK, Account
  <2>2. account' = [account EXCEPT !.lora = lora, !.balance = balance]
    BY <1>1
  <2> HIDE DEF balance
  <2> QED
    BY <2>1, <2>2 DEF Account
<1>4. training' \in [Trainings -> Row'] /\ Row' = Row
  BY <1>1 DEF RowsOK, Row, ExecIds
<1>5. job' \in [Jobs -> JobStatuses] /\ doomed' \subseteq Jobs
  BY DEF RowsOK, Settle, JobStatuses
<1>6. owed' \in [Items -> Nat]
  BY OweType DEF Settle, MessagesOK
<1> QED
  BY <1>3, <1>4, <1>5, <1>6 DEF RowsOK

LEMMA FinishType ==
  ASSUME RowsOK, MessagesOK, UNCHANGED execs, NEW t \in Trainings, NEW ok \in BOOLEAN,
         Finish(t, ok)
  PROVE  RowsOK' /\ owed' \in [Items -> Nat]
<1>1. CASE training[t].status \in {"completed", "failed"}
  BY <1>1 DEF Finish, RowsOK, MessagesOK, Row, ExecIds
<1>2. CASE training[t].status \notin {"completed", "failed"}
  <2>1. PICK found \in Probe :
          Settle(t, ok, IF ok \/ found THEN "ready" ELSE "failed", ok \/ found,
                 InStatus({"waiting_lora"}))
    BY <1>2 DEF Finish
  <2>2. found \in BOOLEAN
    BY DEF Probe, RowsOK, Account
  <2> DEFINE usable == ok \/ found
             lora == IF usable THEN "ready" ELSE "failed"
             parked == InStatus({"waiting_lora"})
  <2>3. usable \in BOOLEAN /\ lora \in {"ready", "failed"} /\ parked \in SUBSET Jobs
    BY <2>2 DEF InStatus
  <2>4. Settle(t, ok, lora, usable, parked)
    BY <2>1
  <2> HIDE DEF usable, lora, parked
  <2> QED
    BY <2>3, <2>4, SettleType
<1> QED
  BY <1>1, <1>2

LEMMA FinishUnsweptType ==
  ASSUME RowsOK, MessagesOK, UNCHANGED execs, NEW t \in Trainings,
         NEW lora \in {"ready", "failed"}, FinishUnswept(t, lora)
  PROVE  RowsOK' /\ owed' \in [Items -> Nat]
<1>1. CASE training[t].status \in {"completed", "failed"}
  BY <1>1 DEF FinishUnswept, RowsOK, MessagesOK, Row, ExecIds
<1>2. CASE training[t].status \notin {"completed", "failed"}
  <2>1. Settle(t, FALSE, lora, FALSE, {})
    BY <1>2 DEF FinishUnswept
  <2>2. {} \in SUBSET Jobs /\ FALSE \in BOOLEAN
    OBVIOUS
  <2> QED
    BY <2>1, <2>2, SettleType
<1> QED
  BY <1>1, <1>2

-----------------------------------------------------------------------------
(* Every action preserves the invariant. What an action leaves alone keeps *)
(* its type because the executions only grow.                              *)

LEMMA SameExecs ==
  ASSUME UNCHANGED execs
  PROVE  ExecIds' = ExecIds /\ Row' = Row /\ Hand' = Hand /\ Sight' = Sight
BY DEF ExecIds, Row, Hand, Sight

\* The rows are left alone.
LEMMA RowsStay ==
  ASSUME RowsOK, UNCHANGED <<account, job, training, doomed, execs>>
  PROVE  RowsOK'
BY SameExecs DEF RowsOK

LEMMA InitInv == Init => Inv
<1> SUFFICES ASSUME Init PROVE Inv
  OBVIOUS
<1>1. RowsOK
  BY DEF Init, RowsOK, Account, JobStatuses, Row, NoRow, InFlight
<1>2. MessagesOK
  BY DEF Init, MessagesOK
<1>3. WorkersOK
  BY DEF Init, WorkersOK, Hand, Resting
<1>4. ContainersOK
  BY DEF Init, ContainersOK
<1>5. WatcherOK
  BY DEF Init, WatcherOK, Sight, NoWatch
<1>6. HasRun
  BY DEF Init, HasRun, At, Resting, NoWatch
<1> QED
  BY <1>1, <1>2, <1>3, <1>4, <1>5, <1>6 DEF Inv

\* Steps that leave the workers, the containers and the watcher alone.
LEMMA Others ==
  ASSUME Inv, UNCHANGED <<worker, execs, inferring, watch>>, RowsOK', MessagesOK'
  PROVE  Inv'
BY SameExecs DEF Inv, WorkersOK, ContainersOK, WatcherOK, HasRun, At, Of

LEMMA ApiInv ==
  ASSUME Inv,
         \/ \E j \in Jobs : Submit(j)
         \/ \E t \in Trainings, force \in BOOLEAN : StartTraining(t, force)
         \/ DeleteAdapter \/ ResetModel \/ Retire
  PROVE  Inv'
<1>1. ASSUME NEW j \in Jobs, Submit(j) PROVE Inv'
  <2>1. RowsOK'
    BY <1>1, SameExecs DEF Submit, Inv, RowsOK, Account, JobStatuses
  <2>2. MessagesOK'
    BY <1>1, OweType DEF Submit, Inv, MessagesOK
  <2> QED
    BY <1>1, <2>1, <2>2, Others DEF Submit
<1>2. ASSUME NEW t \in Trainings, NEW force \in BOOLEAN, StartTraining(t, force) PROVE Inv'
  <2> DEFINE retrain == force /\ account.lora \in {"ready", "failed"}
             charge == IF retrain /\ account.retrains >= FreeRetrains THEN 1 ELSE 0
             retrains == IF retrain THEN account.retrains + 1 ELSE account.retrains
             left == account.balance - charge
  <2>1. account.balance >= charge
    BY <1>2 DEF StartTraining
  <2>2. account \in Account /\ charge \in {0, 1} /\ retrains \in Nat /\ left \in Nat
    BY <2>1 DEF Inv, RowsOK, Account
  <2>3. /\ training' = [training EXCEPT ![t].status = "queued", ![t].charge = charge]
        /\ account' = [account EXCEPT !.lora = "training", !.balance = left,
                         !.retrains = retrains]
    BY <1>2 DEF StartTraining
  <2> HIDE DEF retrain, charge, retrains, left
  <2>4. account' \in Account
    BY <2>2, <2>3 DEF Account
  <2> DEFINE row == [training[t] EXCEPT !.status = "queued", !.charge = charge]
  <2>5. row \in Row
    <3>1. training[t] \in Row  BY DEF Inv, RowsOK
    <3>2. "queued" \in {"absent", "completed", "failed"} \cup InFlight  BY DEF InFlight
    <3> QED  BY ONLY <2>2, <3>1, <3>2 DEF Row
  <2>6. training' = [training EXCEPT ![t] = row]
    BY <2>3
  <2> HIDE DEF row
  <2>7. training' \in [Trainings -> Row]
    BY <2>5, <2>6 DEF Inv, RowsOK
  <2>8. RowsOK'
    BY <1>2, <2>4, <2>7, SameExecs DEF StartTraining, Inv, RowsOK
  <2>9. MessagesOK'
    BY <1>2, OweType DEF StartTraining, Inv, MessagesOK
  <2> QED
    BY <1>2, <2>8, <2>9, Others DEF StartTraining
<1>3. CASE DeleteAdapter \/ ResetModel \/ Retire
  <2>1. ASSUME Retire PROVE account' \in Account
    <3>1. PICK left \in {FALSE, account.adapter} :
            account' = [account EXCEPT !.lora = "none", !.adapter = left]
      BY <2>1 DEF Retire
    <3>2. account \in Account /\ left \in BOOLEAN
      BY DEF Inv, RowsOK, Account
    <3> QED
      BY <3>1, <3>2 DEF Account
  <2>2. ASSUME DeleteAdapter \/ ResetModel PROVE account' \in Account
    <3>1. account \in Account /\ FALSE \in BOOLEAN
      BY DEF Inv, RowsOK
    <3>2. CASE DeleteAdapter
      BY <3>1, <3>2, AdapterType DEF DeleteAdapter
    <3>3. CASE ResetModel
      BY <3>1, <3>3 DEF ResetModel, Account
    <3> QED
      BY <2>2, <3>2, <3>3
  <2>3. RowsOK'
    BY <1>3, <2>1, <2>2, SameExecs DEF DeleteAdapter, ResetModel, Retire, Inv, RowsOK
  <2>4. MessagesOK'
    BY <1>3 DEF DeleteAdapter, ResetModel, Retire, Inv, MessagesOK
  <2> QED
    BY <1>3, <2>3, <2>4, Others DEF DeleteAdapter, ResetModel, Retire
<1> QED
  BY <1>1, <1>2, <1>3

LEMMA OutboxInv ==
  ASSUME Inv, NEW i \in Items, Deliver(i) \/ DeliverTwice(i)
  PROVE  Inv'
<1>1. owed' \in [Items -> Nat]
  BY DEF Deliver, DeliverTwice, Inv, MessagesOK
<1>2. MessagesOK'
  BY <1>1, EnqueueType DEF Deliver, DeliverTwice, Inv, MessagesOK
<1> QED
  BY <1>2, RowsStay, Others DEF Deliver, DeliverTwice, Inv

LEMMA SweepInv ==
  ASSUME Inv, NEW j \in Jobs, FailParked(j) \/ SkipParked(j) \/ Reap(j)
  PROVE  Inv'
<1>1. RowsOK'
  BY FailJobType, SameExecs DEF FailParked, SkipParked, Reap, Inv, RowsOK
<1>2. MessagesOK'
  BY DEF FailParked, SkipParked, Reap, Inv, MessagesOK
<1> QED
  BY <1>1, <1>2, Others DEF FailParked, SkipParked, Reap

LEMMA PoisonInv ==
  ASSUME Inv, NEW t \in Trainings, Poison(t)
  PROVE  Inv'
<1>1. RowsOK' /\ owed' \in [Items -> Nat]
  BY FinishType DEF Poison, Inv
<1> QED
  BY <1>1, Others DEF Poison, Inv, MessagesOK

-----------------------------------------------------------------------------
(* process_training_job.                                                   *)

\* A worker moves and the rows keep their types.
LEMMA WorkerMoves ==
  ASSUME Inv, RowsOK', MessagesOK', UNCHANGED <<execs, inferring, watch>>,
         NEW w \in Workers, NEW hand \in Hand, worker' = [worker EXCEPT ![w] = hand],
         hand.pc # "idle" => hand.of \in Trainings
  PROVE  Inv'
<1>1. WorkersOK'
  BY SameExecs DEF Inv, WorkersOK
<1>2. HasRun'
  BY SameExecs DEF Inv, WorkersOK, HasRun, At, Of
<1> QED
  BY <1>1, <1>2, SameExecs DEF Inv, ContainersOK, WatcherOK

LEMMA RestMoves ==
  ASSUME Inv, RowsOK', MessagesOK', UNCHANGED <<execs, inferring, watch>>,
         NEW w \in Workers, Rest(w)
  PROVE  Inv'
<1>1. Resting \in Hand /\ Resting.pc = "idle"
  BY DEF Resting, Hand
<1> QED
  BY <1>1, WorkerMoves DEF Rest

\* A worker takes another step of the run it has.
LEMMA GoMoves ==
  ASSUME Inv, RowsOK', MessagesOK', UNCHANGED <<execs, inferring, watch>>,
         NEW w \in Workers, ~At(w, "idle"),
         NEW pc \in {"held", "fuse", "start", "unclaim", "revert", "record"},
         NEW j \in Jobs \cup {None},
         \/ worker' = [worker EXCEPT ![w].pc = pc, ![w].fused = j]
         \/ worker' = [worker EXCEPT ![w].pc = pc]
  PROVE  Inv'
<1> DEFINE hand1 == [worker[w] EXCEPT !.pc = pc, !.fused = j]
           hand2 == [worker[w] EXCEPT !.pc = pc]
<1>1. worker[w] \in Hand /\ worker[w].of \in Trainings
  BY DEF Inv, WorkersOK, HasRun, At, Of
<1>2. /\ hand1 \in Hand /\ hand1.of \in Trainings
      /\ hand2 \in Hand /\ hand2.of \in Trainings
  BY <1>1 DEF Hand
<1>3. worker' = [worker EXCEPT ![w] = hand1] \/ worker' = [worker EXCEPT ![w] = hand2]
  OBVIOUS
<1> HIDE DEF hand1, hand2
<1> QED
  BY <1>2, <1>3, WorkerMoves

LEMMA ReturnType ==
  ASSUME queue \in [Items -> Nat], NEW w \in Workers, Of(w) \in Trainings, Return(w)
  PROVE  queue' \in [Items -> Nat] /\ Rest(w)
BY DEF Return, Items

\* One column of one run changes.
LEMMA RowType ==
  ASSUME training \in [Trainings -> Row], NEW t \in Trainings, NEW row \in Row,
         training' = [training EXCEPT ![t] = row]
  PROVE  training' \in [Trainings -> Row]
OBVIOUS

LEMMA StatusType ==
  ASSUME training \in [Trainings -> Row], NEW t \in Trainings, NEW s \in InFlight,
         training' = [training EXCEPT ![t].status = s]
  PROVE  training' \in [Trainings -> Row]
<1> DEFINE row == [training[t] EXCEPT !.status = s]
<1>1. row \in Row
  BY DEF Row
<1> QED
  BY <1>1, RowType

\* Taking a message, handing it back, giving it up, dying.
LEMMA MessageInv ==
  ASSUME Inv, NEW w \in Workers,
         \/ \E t \in Trainings : Receive(w, t)
         \/ Discard(w) \/ Defer(w) \/ GiveUp(w) \/ Reject(w) \/ WorkerDies(w)
  PROVE  Inv'
<1>1. ASSUME NEW t \in Trainings, Receive(w, t) PROVE Inv'
  <2> DEFINE hand == [Resting EXCEPT !.pc = "held", !.of = t]
  <2>1. hand \in Hand /\ hand.of \in Trainings
    BY DEF Resting, Hand
  <2>2. RowsOK'
    BY <1>1, RowsStay DEF Receive, Inv
  <2>3. worker' = [worker EXCEPT ![w] = hand] /\ UNCHANGED <<execs, inferring, watch>>
    BY <1>1 DEF Receive
  <2> HIDE DEF hand
  <2>4. MessagesOK'
    <3>1. queue[t] > 0 /\ queue' = [queue EXCEPT ![t] = @ - 1] /\ UNCHANGED <<owed, poisoned>>
      BY <1>1 DEF Receive
    <3>2. queue \in [Items -> Nat] /\ t \in Items
      BY DEF Inv, MessagesOK, Items
    <3>3. queue' \in [Items -> Nat]
      BY <3>1, <3>2
    <3> QED
      BY <3>1, <3>3 DEF Inv, MessagesOK
  <2> QED
    BY <2>1, <2>2, <2>3, <2>4, WorkerMoves
<1>2. CASE Discard(w)
  BY <1>2, RowsStay, RestMoves DEF Discard, Inv, MessagesOK
<1>3. CASE Defer(w) \/ WorkerDies(w)
  <2>1. RowsOK'
    BY <1>3, RowsStay DEF Defer, WorkerDies, Inv
  <2>2. Of(w) \in Trainings
    BY <1>3 DEF Defer, WorkerDies, Inv, HasRun, At
  <2>3. ASSUME Return(w), UNCHANGED <<owed, poisoned>> PROVE MessagesOK'
    BY <2>2, <2>3, ReturnType DEF Inv, MessagesOK
  <2>4. ASSUME poisoned' = poisoned \cup {Of(w)}, UNCHANGED <<owed, queue>> PROVE MessagesOK'
    BY <2>2, <2>4 DEF Inv, MessagesOK
  <2>5. MessagesOK' /\ Rest(w)
    BY <1>3, <2>3, <2>4 DEF Defer, WorkerDies, Return
  <2> QED
    BY <1>3, <2>1, <2>5, RestMoves DEF Defer, WorkerDies
<1>4. CASE GiveUp(w) \/ Reject(w)
  <2>1. Of(w) \in Trainings
    BY <1>4 DEF GiveUp, Reject, Inv, HasRun, At
  <2>2. RowsOK' /\ owed' \in [Items -> Nat]
    BY <1>4, <2>1, FinishType DEF GiveUp, Reject, Inv
  <2> QED
    BY <1>4, <2>2, RestMoves DEF GiveUp, Reject, Inv, MessagesOK
<1> QED
  BY <1>1, <1>2, <1>3, <1>4

\* The claim of a run and of the job it is fused with.
LEMMA ClaimInv ==
  ASSUME Inv, NEW w \in Workers, Claim(w) \/ FuseNew(w) \/ FuseAgain(w) \/ TrainOnly(w)
  PROVE  Inv'
<1>1. ~At(w, "idle") /\ Of(w) \in Trainings
  BY DEF Claim, FuseNew, FuseAgain, TrainOnly, Inv, HasRun, At
<1>2. MessagesOK' /\ UNCHANGED <<execs, inferring, watch>>
  BY DEF Claim, FuseNew, FuseAgain, TrainOnly, Inv, MessagesOK
<1>3. CASE Claim(w)
  <2>1. training' \in [Trainings -> Row]
    BY <1>1, <1>3, StatusType DEF Claim, Inv, RowsOK, InFlight
  <2>2. RowsOK'
    BY <1>2, <1>3, <2>1, SameExecs DEF Claim, Inv, RowsOK
  <2> QED
    BY <1>1, <1>2, <1>3, <2>2, GoMoves DEF Claim, Go
<1>4. CASE FuseNew(w)
  <2>1. PICK j \in Jobs : /\ job' = [job EXCEPT ![j] = "processing"]
                          /\ training' = [training EXCEPT ![Of(w)].fused = j]
                          /\ Bind(w, j)
    BY <1>4 DEF FuseNew, InStatus
  <2> DEFINE row == [training[Of(w)] EXCEPT !.fused = j]
  <2>2. row \in Row
    BY <1>1 DEF Inv, RowsOK, Row
  <2>3. training' = [training EXCEPT ![Of(w)] = row]
    BY <2>1
  <2> HIDE DEF row
  <2>4. training' \in [Trainings -> Row]
    BY <1>1, <2>2, <2>3, RowType DEF Inv, RowsOK
  <2>5. RowsOK'
    BY <1>2, <1>4, <2>1, <2>4, SameExecs DEF FuseNew, Inv, RowsOK, JobStatuses
  <2> QED
    BY <1>1, <1>2, <2>1, <2>5, GoMoves DEF Bind
<1>5. CASE FuseAgain(w)
  <2>1. PICK j \in Jobs \cup {None} : job' = [job EXCEPT ![j] = "processing"] /\ Bind(w, j)
    BY <1>1, <1>5 DEF FuseAgain, Inv, RowsOK, Row
  <2>2. RowsOK'
    BY <1>2, <1>5, <2>1, SameExecs DEF FuseAgain, Inv, RowsOK, JobStatuses
  <2> QED
    BY <1>1, <1>2, <2>1, <2>2, GoMoves DEF Bind
<1>6. CASE TrainOnly(w)
  BY <1>1, <1>2, <1>6, RowsStay, GoMoves DEF TrainOnly, Bind, Inv
<1> QED
  BY <1>3, <1>4, <1>5, <1>6

\* Undoing a claim, and recording an execution.
LEMMA AfterStartInv ==
  ASSUME Inv, NEW w \in Workers, Unclaim(w) \/ Revert(w) \/ Record(w)
  PROVE  Inv'
<1>1. ~At(w, "idle") /\ Of(w) \in Trainings
  BY DEF Unclaim, Revert, Record, Inv, HasRun, At
<1>2. UNCHANGED <<execs, inferring, watch>>
  BY DEF Unclaim, Revert, Record
<1>3. CASE Unclaim(w)
  <2>1. job' \in [Jobs -> JobStatuses]
    BY <1>3 DEF Unclaim, Inv, RowsOK, JobStatuses
  <2>2. RowsOK' /\ MessagesOK'
    BY <1>2, <1>3, <2>1, SameExecs DEF Unclaim, Inv, RowsOK, MessagesOK
  <2> QED
    BY <1>1, <1>2, <1>3, <2>2, GoMoves DEF Unclaim, Go
<1>4. CASE Revert(w)
  <2> DEFINE row == [training[Of(w)] EXCEPT
                       !.status = IF @ = "dispatching" THEN "queued" ELSE @]
  <2>1. row \in Row
    BY <1>1 DEF Inv, RowsOK, Row, InFlight
  <2>2. training' = [training EXCEPT ![Of(w)] = row]
    BY <1>4 DEF Revert
  <2> HIDE DEF row
  <2>3. training' \in [Trainings -> Row]
    BY <1>1, <2>1, <2>2, RowType DEF Inv, RowsOK
  <2>4. RowsOK'
    BY <1>2, <1>4, <2>3, SameExecs DEF Revert, Inv, RowsOK
  <2>5. MessagesOK' /\ Rest(w)
    BY <1>1, <1>4, ReturnType DEF Revert, Inv, MessagesOK
  <2> QED
    BY <1>2, <2>4, <2>5, RestMoves
<1>5. CASE Record(w)
  <2> DEFINE old == training[Of(w)]
             new == [old EXCEPT !.status = "training", !.exec = worker[w].exec]
             row == IF old.status = "dispatching" /\ old.exec = None THEN new ELSE old
  <2>1. old \in Row /\ worker[w].exec \in ExecIds \cup {None}
    BY <1>1 DEF Inv, RowsOK, WorkersOK, Hand
  <2>2. new \in Row
    BY <2>1 DEF Row, InFlight
  <2>3. training' = [training EXCEPT ![Of(w)] = row] /\ row \in Row
    BY <1>5, <2>1, <2>2 DEF Record
  <2> HIDE DEF row
  <2>4. training' \in [Trainings -> Row]
    BY <1>1, <2>3, RowType DEF Inv, RowsOK
  <2>5. RowsOK' /\ MessagesOK'
    BY <1>2, <1>5, <2>4, SameExecs DEF Record, Inv, RowsOK, MessagesOK
  <2> QED
    BY <1>2, <1>5, <2>5, RestMoves DEF Record
<1> QED
  BY <1>3, <1>4, <1>5

-----------------------------------------------------------------------------
(* The containers.                                                         *)

\* A start adds an execution, and what referred to one still does.
LEMMA LaunchType ==
  ASSUME Inv, NEW w \in Workers, Of(w) \in Trainings, Launch(w)
  PROVE  /\ execs' \in Seq(Execution) /\ Len(execs) + 1 \in ExecIds'
         /\ ExecIds \subseteq ExecIds' /\ Row \subseteq Row' /\ Hand \subseteq Hand'
         /\ Sight \subseteq Sight'
<1> DEFINE new == [of |-> Of(w), fused |-> worker[w].fused, phase |-> "training"]
<1>1. new \in Execution
  BY DEF Inv, WorkersOK, Hand, Execution
<1>2. execs \in Seq(Execution) /\ execs' = Append(execs, new)
  BY DEF Inv, ContainersOK, Launch
<1> HIDE DEF new
<1>3. execs' \in Seq(Execution) /\ Len(execs') = Len(execs) + 1 /\ Len(execs) \in Nat
  BY <1>1, <1>2
<1>4. ExecIds \subseteq ExecIds' /\ Len(execs) + 1 \in ExecIds'
  BY <1>3 DEF ExecIds
<1> QED
  BY <1>3, <1>4 DEF Row, Hand, Sight

LEMMA StartInv ==
  ASSUME Inv, NEW w \in Workers, Start(w) \/ StartRaises(w)
  PROVE  Inv'
<1>1. ~At(w, "idle") /\ Of(w) \in Trainings /\ worker[w] \in Hand
  BY DEF Start, StartRaises, Inv, HasRun, At, WorkersOK
<1>2. /\ UNCHANGED <<account, job, training, doomed, owed, queue, poisoned, inferring, watch>>
      /\ MessagesOK'
  BY DEF Start, StartRaises, Inv, MessagesOK
<1>3. ASSUME Launch(w), NEW hand \in Hand', worker' = [worker EXCEPT ![w] = hand],
             hand.of \in Trainings
      PROVE  Inv'
  <2>1. RowsOK'
    BY <1>2, <1>1, <1>3, LaunchType DEF Inv, RowsOK
  <2>2. WorkersOK' /\ ContainersOK' /\ WatcherOK'
    BY <1>1, <1>2, <1>3, LaunchType DEF Inv, WorkersOK, ContainersOK, WatcherOK
  <2>3. HasRun'
    BY <1>1, <1>2, <1>3, LaunchType DEF Inv, HasRun, WorkersOK, At, Of
  <2> QED
    BY <1>2, <2>1, <2>2, <2>3 DEF Inv
<1>4. CASE Start(w)
  <2> DEFINE hand == [worker[w] EXCEPT !.pc = "record", !.exec = Len(execs) + 1]
  <2>1. Launch(w) /\ worker' = [worker EXCEPT ![w] = hand]
    BY <1>4 DEF Start
  <2>2. worker[w] \in Hand' /\ Len(execs) + 1 \in ExecIds' /\ worker[w].of \in Trainings
    BY <1>1, <2>1, LaunchType DEF Of
  <2>3. hand \in Hand' /\ hand.of \in Trainings
    BY <2>2 DEF Hand
  <2> HIDE DEF hand
  <2> QED
    BY <1>3, <2>1, <2>3
<1>5. CASE StartRaises(w)
  <2> DEFINE pc == IF worker[w].fused = None THEN "revert" ELSE "unclaim"
             hand == [worker[w] EXCEPT !.pc = pc]
  <2>1. worker' = [worker EXCEPT ![w] = hand] /\ (UNCHANGED execs \/ Launch(w))
    BY <1>5 DEF StartRaises, Go
  <2>2. hand \in Hand /\ hand.of \in Trainings /\ pc \in {"revert", "unclaim"}
    BY <1>1 DEF Hand, Of
  <2> HIDE DEF hand
  <2>3. CASE UNCHANGED execs
    BY <1>2, <2>1, <2>2, <2>3, RowsStay, WorkerMoves DEF Inv
  <2>4. CASE Launch(w)
    BY <1>1, <1>3, <2>1, <2>2, <2>4, LaunchType
  <2> QED
    BY <2>1, <2>3, <2>4
<1> QED
  BY <1>4, <1>5

\* The phase of one execution changes.
LEMMA PhaseType ==
  ASSUME ContainersOK, NEW e \in ExecIds,
         NEW p \in {"training", "trained", "generating"} \cup Ended, Phase(e, p)
  PROVE  execs' \in Seq(Execution) /\ ExecIds' = ExecIds
<1> DEFINE new == [execs[e] EXCEPT !.phase = p]
<1>1. execs[e] \in Execution
  BY DEF ContainersOK, ExecIds
<1>2. new \in Execution
  BY <1>1 DEF Execution
<1>3. execs' = [execs EXCEPT ![e] = new]
  BY DEF Phase
<1> HIDE DEF new
<1> QED
  BY <1>2, <1>3 DEF ContainersOK, ExecIds

\* Steps of the containers leave the messages, the workers and the watcher alone.
LEMMA ContainerMoves ==
  ASSUME Inv, ContainerOnly, ExecIds' = ExecIds, execs' \in Seq(Execution),
         inferring' \subseteq Jobs, account' \in Account, job' \in [Jobs -> JobStatuses]
  PROVE  Inv'
<1>1. Row' = Row /\ Hand' = Hand /\ Sight' = Sight
  BY DEF Row, Hand, Sight
<1> QED
  BY <1>1 DEF ContainerOnly, Inv, RowsOK, MessagesOK, WorkersOK, ContainersOK, WatcherOK,
              HasRun, At, Of

LEMMA TrainingContainerInv ==
  ASSUME Inv, NEW e \in ExecIds,
         \/ Run(e) \/ NeverRuns(e) \/ TrainingFails(e) \/ GenerationFails(e) \/ Dies(e)
  PROVE  Inv'
<1>1. ContainersOK /\ ContainerOnly /\ UNCHANGED inferring
  BY DEF Inv, Run, Trained, Generate, Generated, NeverRuns, TrainingFails, GenerationFails, Dies
<1>2. account \in Account /\ job \in [Jobs -> JobStatuses] /\ inferring \subseteq Jobs
  BY DEF Inv, RowsOK, ContainersOK
<1>3. \E p \in {"training", "trained", "generating"} \cup Ended : Phase(e, p)
  <2>1. CASE Trained(e) \/ Generated(e)
    BY <2>1 DEF Trained, Generated, Ended
  <2>2. CASE Generate(e)
    BY <2>2 DEF Generate, Ended
  <2>3. CASE NeverRuns(e) \/ TrainingFails(e) \/ GenerationFails(e) \/ Dies(e)
    BY <2>3 DEF NeverRuns, TrainingFails, GenerationFails, Dies, Ended
  <2> QED
    BY <2>1, <2>2, <2>3 DEF Run
<1>4. execs' \in Seq(Execution) /\ ExecIds' = ExecIds
  BY <1>1, <1>3, PhaseType
<1>5. account' \in Account /\ job' \in [Jobs -> JobStatuses]
  <2>1. CASE Trained(e)
    <3>1. TRUE \in BOOLEAN
      OBVIOUS
    <3> QED
      BY <1>2, <2>1, <3>1, AdapterType DEF Trained
  <2>2. CASE Generate(e) \/ Generated(e)
    BY <1>2, <2>2, WriteType DEF Generate, Generated, JobStatuses, JobTerminal
  <2>3. CASE GenerationFails(e)
    BY <1>2, <2>3, FailJobType DEF GenerationFails
  <2>4. CASE NeverRuns(e) \/ TrainingFails(e) \/ Dies(e)
    BY <1>2, <2>4 DEF NeverRuns, TrainingFails, Dies
  <2> QED
    BY <2>1, <2>2, <2>3, <2>4 DEF Run
<1> QED
  BY <1>1, <1>2, <1>4, <1>5, ContainerMoves

LEMMA InferenceInv ==
  ASSUME Inv, NEW j \in Jobs, Serve(j) \/ Infer(j)
  PROVE  Inv'
<1>1. account \in Account /\ job \in [Jobs -> JobStatuses] /\ inferring \subseteq Jobs
  BY DEF Inv, RowsOK, ContainersOK
<1>2. CASE Serve(j)
  <2>1. job' \in [Jobs -> JobStatuses] /\ inferring' \subseteq Jobs
    BY <1>1, <1>2, WriteType DEF Serve, JobStatuses
  <2>2. RowsOK'
    BY <1>2, <2>1, SameExecs DEF Serve, Inv, RowsOK
  <2>3. MessagesOK'
    <3>1. queue[j] > 0 /\ queue' = [queue EXCEPT ![j] = @ - 1] /\ UNCHANGED <<owed, poisoned>>
      BY <1>2 DEF Serve
    <3>2. queue \in [Items -> Nat] /\ j \in Items
      BY DEF Inv, MessagesOK, Items
    <3>3. queue' \in [Items -> Nat]
      BY <3>1, <3>2
    <3> QED
      BY <3>1, <3>3 DEF Inv, MessagesOK
  <2> QED
    BY <1>2, <2>1, <2>2, <2>3, SameExecs DEF Serve, Inv, WorkersOK, ContainersOK, WatcherOK,
                                             HasRun, At, Of
<1>3. CASE Infer(j)
  <2>1. account' \in Account /\ job' \in [Jobs -> JobStatuses]
    BY <1>1, <1>3, WriteType, FailJobType DEF Infer, JobStatuses, JobTerminal
  <2> QED
    BY <1>1, <1>3, <2>1, SameExecs, ContainerMoves DEF Infer, Inv, ContainersOK
<1> QED
  BY <1>2, <1>3

-----------------------------------------------------------------------------
(* The watcher.                                                            *)

\* What the watcher knows changes, and the rows keep their types.
LEMMA WatcherMoves ==
  ASSUME Inv, WatcherOnly, RowsOK', owed' \in [Items -> Nat], WatcherOK',
         /\ watch'.verdict # "none" => watch'.of \in Trainings
         /\ watch'.verdict \in {"neverRan", "spent", "exhausted"} => watch'.exec \in ExecIds
  PROVE  Inv'
BY SameExecs DEF WatcherOnly, Inv, MessagesOK, WorkersOK, ContainersOK, HasRun, At, Of

LEMMA DoneMoves ==
  ASSUME Inv, WatcherOnly, RowsOK', owed' \in [Items -> Nat], Done
  PROVE  Inv'
<1>1. NoWatch \in Sight /\ NoWatch.verdict = "none" /\ Sight' = Sight
  BY SameExecs DEF NoWatch, Sight, WatcherOnly
<1> QED
  BY <1>1, WatcherMoves DEF Done, WatcherOK

\* The watcher looks at a run.
LEMMA LookInv ==
  ASSUME Inv, NEW t \in Trainings, Look(t) \/ Age(t)
  PROVE  Inv'
<1>1. WatcherOnly /\ RowsOK' /\ owed' \in [Items -> Nat]
  BY RowsStay DEF Look, Age, WatcherOnly, Inv, MessagesOK
<1>2. training[t].exec \in ExecIds \cup {None}
  BY DEF Inv, RowsOK, Row
<1>3. PICK v \in {"ok", "failed", "neverRan"} :
        /\ Sees(t, v)
        /\ v = "neverRan" => training[t].exec # None
  BY DEF Look, Age, Verdicts
<1>4. watch' \in Sight /\ watch'.of = t
      /\ watch'.verdict = v /\ watch'.exec = training[t].exec
  BY <1>2, <1>3 DEF Sees, Sight
<1>5. WatcherOK'
  BY <1>1, <1>4, SameExecs DEF WatcherOK, WatcherOnly
<1> QED
  BY <1>1, <1>2, <1>3, <1>4, <1>5, WatcherMoves

LEMMA ConcludeInv ==
  ASSUME Inv, Conclude \/ ConcludeExhausted
  PROVE  Inv'
<1>1. watch.of \in Trainings /\ WatcherOnly /\ Done
  BY DEF Conclude, ConcludeExhausted, Inv, HasRun
<1>2. CASE Conclude
  <2>1. (watch.verdict = "ok") \in BOOLEAN
    OBVIOUS
  <2> QED
    BY <1>1, <1>2, <2>1, FinishType, DoneMoves DEF Conclude, Inv, WatcherOnly
<1>3. CASE ConcludeExhausted
  <2>1. PICK lora \in {"ready", "failed"} : FinishUnswept(watch.of, lora)
    BY <1>3 DEF ConcludeExhausted
  <2> QED
    BY <1>1, <2>1, FinishUnsweptType, DoneMoves DEF Inv, WatcherOnly
<1> QED
  BY <1>2, <1>3

LEMMA RetryInv ==
  ASSUME Inv, Retry
  PROVE  Inv'
<1> DEFINE old == training[watch.of]
           new == [old EXCEPT !.status = "queued", !.exec = None,
                              !.history = @ \cup {watch.exec}]
<1>1. watch.of \in Trainings /\ watch.exec \in ExecIds /\ old \in Row
  BY DEF Retry, Inv, HasRun, RowsOK
<1>2. new \in Row
  BY <1>1 DEF Row, InFlight
<1>3. training' = [training EXCEPT ![watch.of] = new]
  BY DEF Retry
<1>4. training' \in [Trainings -> Row]
  BY <1>1, <1>2, <1>3, RowType DEF Inv, RowsOK
<1>5. job' \in [Jobs -> JobStatuses]
  BY DEF Retry, Inv, RowsOK, JobStatuses
<1>6. RowsOK'
  BY <1>4, <1>5, SameExecs DEF Retry, WatcherOnly, Inv, RowsOK
<1>7. owed' \in [Items -> Nat]
  BY OweType DEF Retry, Inv, MessagesOK
<1> QED
  BY <1>6, <1>7, DoneMoves DEF Retry

\* A run that is not retried: nothing to do, no budget, or the job alone is failed.
LEMMA NoRetryInv ==
  ASSUME Inv, AlreadyHandled \/ NoRetry \/ Exhaust \/ WatcherDies
  PROVE  Inv'
<1>1. WatcherOnly /\ owed' \in [Items -> Nat]
  BY DEF AlreadyHandled, NoRetry, Exhaust, WatcherDies, WatcherOnly, Inv, MessagesOK
<1>2. CASE AlreadyHandled \/ WatcherDies
  <2>1. RowsOK'
    BY <1>1, <1>2, RowsStay DEF AlreadyHandled, WatcherDies, WatcherOnly, Inv
  <2> QED
    BY <1>1, <1>2, <2>1, DoneMoves DEF AlreadyHandled, WatcherDies
<1>3. ASSUME NEW v \in {"spent", "exhausted"}, watch' = [watch EXCEPT !.verdict = v], RowsOK',
             watch.verdict \in {"neverRan", "spent"}
      PROVE  Inv'
  <2>1. watch \in Sight /\ watch.of \in Trainings /\ watch.exec \in ExecIds
    BY <1>3 DEF Inv, WatcherOK, HasRun
  <2>2. watch' \in Sight /\ watch'.of = watch.of /\ watch'.exec = watch.exec
    BY <1>3, <2>1 DEF Sight
  <2>3. WatcherOK'
    BY <1>1, <2>2, SameExecs DEF WatcherOK, WatcherOnly
  <2> QED
    BY <1>1, <1>3, <2>1, <2>2, <2>3, WatcherMoves
<1>4. CASE NoRetry
  <2>1. RowsOK'
    BY <1>1, <1>4, RowsStay DEF NoRetry, WatcherOnly, Inv
  <2> QED
    BY <1>3, <1>4, <2>1 DEF NoRetry
<1>5. CASE Exhaust
  <2> DEFINE old == training[watch.of]
             new == [old EXCEPT !.history = @ \cup {watch.exec}]
  <2>1. watch.of \in Trainings /\ watch.exec \in ExecIds /\ old \in Row
    BY <1>5 DEF Exhaust, Inv, HasRun, RowsOK
  <2>2. new \in Row
    BY <2>1 DEF Row
  <2>3. training' = [training EXCEPT ![watch.of] = new] \/ training' = training
    BY <1>5 DEF Exhaust
  <2>4. training' \in [Trainings -> Row]
    BY <2>1, <2>2, <2>3, RowType DEF Inv, RowsOK
  <2>5. account' \in Account /\ job' \in [Jobs -> JobStatuses]
    BY <1>5, FailJobType DEF Exhaust, Inv, RowsOK
  <2>6. RowsOK'
    BY <1>1, <1>5, <2>4, <2>5, SameExecs DEF Exhaust, WatcherOnly, Inv, RowsOK
  <2> QED
    BY <1>3, <1>5, <2>6 DEF Exhaust
<1> QED
  BY <1>2, <1>4, <1>5

-----------------------------------------------------------------------------
LEMMA NextInv == Inv /\ [Next]_vars => Inv'
<1> SUFFICES ASSUME Inv, [Next]_vars PROVE Inv'
  OBVIOUS
<1>1. ASSUME NEW j \in Jobs,
             Submit(j) \/ FailParked(j) \/ SkipParked(j) \/ Serve(j) \/ Infer(j) \/ Reap(j)
      PROVE  Inv'
  BY <1>1, ApiInv, SweepInv, InferenceInv
<1>2. ASSUME NEW t \in Trainings,
             \/ Poison(t) \/ Look(t) \/ Age(t)
             \/ \E force \in BOOLEAN : StartTraining(t, force)
      PROVE  Inv'
  BY <1>2, PoisonInv, LookInv, ApiInv
<1>3. CASE DeleteAdapter \/ ResetModel \/ Retire
  BY <1>3, ApiInv
<1>4. ASSUME NEW i \in Items, Deliver(i) \/ DeliverTwice(i)
      PROVE  Inv'
  BY <1>4, OutboxInv
<1>5. ASSUME NEW w \in Workers,
             \/ \E t \in Trainings : Receive(w, t)
             \/ Work(w) \/ Defer(w) \/ GiveUp(w) \/ Reject(w) \/ WorkerDies(w)
      PROVE  Inv'
  BY <1>5, MessageInv, ClaimInv, StartInv, AfterStartInv DEF Work
<1>6. ASSUME NEW e \in ExecIds,
             Run(e) \/ NeverRuns(e) \/ TrainingFails(e) \/ GenerationFails(e) \/ Dies(e)
      PROVE  Inv'
  BY <1>6, TrainingContainerInv
<1>7. CASE Watch \/ WatcherDies
  BY <1>7, ConcludeInv, RetryInv, NoRetryInv DEF Watch
<1>8. CASE UNCHANGED vars
  BY <1>8, RowsStay, Others DEF vars, Inv, MessagesOK
<1> QED
  BY <1>1, <1>2, <1>3, <1>4, <1>5, <1>6, <1>7, <1>8 DEF Next

\* In every behaviour the invariant holds.
THEOREM Invariance == Spec => []Inv
BY InitInv, NextInv, PTL DEF Spec

\* The rows of an account, its messages, workers, containers and the watcher keep their
\* types: no balance is negative, and every execution a run or a worker names exists.
THEOREM TypeCorrect == Spec => []TypeOK
<1>1. Inv => TypeOK
  BY DEF Inv, RowsOK, MessagesOK, WorkersOK, ContainersOK, WatcherOK, TypeOK, Account,
         JobStatuses, Row, Hand, Execution, Sight
<1> QED
  BY <1>1, Invariance, PTL

-----------------------------------------------------------------------------
(* The link between a run and its fused job.                               *)

KeepsLinks ==
  \A t \in Trainings : training[t].fused # None => training'[t].fused = training[t].fused

LEMMA OneRowKeepsLinks ==
  ASSUME Inv, NEW t \in Trainings, NEW row, row.fused = training[t].fused,
         training' = [training EXCEPT ![t] = row]
  PROVE  KeepsLinks
BY DEF KeepsLinks, Inv, RowsOK

LEMMA SettleKeepsLinks ==
  ASSUME Inv, NEW t \in Trainings, NEW ok, NEW lora, NEW usable, NEW parked,
         Settle(t, ok, lora, usable, parked)
  PROVE  KeepsLinks
BY DEF Settle, KeepsLinks, Inv, RowsOK, Row

LEMMA NextKeepsLinks == Inv /\ [Next]_vars => KeepsLinks
<1> SUFFICES ASSUME Inv, [Next]_vars PROVE KeepsLinks
  OBVIOUS
<1>1. ASSUME UNCHANGED training PROVE KeepsLinks
  BY <1>1 DEF KeepsLinks
<1>2. ASSUME NEW t \in Trainings, NEW ok, Finish(t, ok) PROVE KeepsLinks
  BY <1>1, <1>2, SettleKeepsLinks DEF Finish
<1>3. ASSUME NEW j \in Jobs,
             Submit(j) \/ FailParked(j) \/ SkipParked(j) \/ Serve(j) \/ Infer(j) \/ Reap(j)
      PROVE  KeepsLinks
  BY <1>1, <1>3 DEF Submit, FailParked, SkipParked, Serve, Infer, Reap, ContainerOnly
<1>4. ASSUME NEW t \in Trainings,
             \/ Poison(t) \/ Look(t) \/ Age(t)
             \/ \E force \in BOOLEAN : StartTraining(t, force)
      PROVE  KeepsLinks
  <2>1. CASE Poison(t)
    BY <1>2, <2>1 DEF Poison
  <2>2. CASE Look(t) \/ Age(t)
    BY <1>1, <2>2 DEF Look, Age
  <2>3. CASE \E force \in BOOLEAN : StartTraining(t, force)
    BY <2>3 DEF StartTraining, KeepsLinks, Inv, RowsOK, Row
  <2> QED
    BY <1>4, <2>1, <2>2, <2>3
<1>5. CASE DeleteAdapter \/ ResetModel \/ Retire
  BY <1>1, <1>5 DEF DeleteAdapter, ResetModel, Retire
<1>6. ASSUME NEW i \in Items, Deliver(i) \/ DeliverTwice(i)
      PROVE  KeepsLinks
  BY <1>1, <1>6 DEF Deliver, DeliverTwice
<1>7. ASSUME NEW w \in Workers,
             \/ \E t \in Trainings : Receive(w, t)
             \/ Work(w) \/ Defer(w) \/ GiveUp(w) \/ Reject(w) \/ WorkerDies(w)
      PROVE  KeepsLinks
  <2>1. CASE \/ \E t \in Trainings : Receive(w, t)
             \/ Discard(w) \/ Defer(w) \/ WorkerDies(w)
    BY <1>1, <2>1 DEF Receive, Discard, Defer, WorkerDies
  <2>2. CASE FuseAgain(w) \/ TrainOnly(w) \/ Start(w) \/ StartRaises(w) \/ Unclaim(w)
    BY <1>1, <2>2 DEF FuseAgain, TrainOnly, Start, StartRaises, Unclaim
  <2>3. CASE GiveUp(w) \/ Reject(w)
    <3>1. Of(w) \in Trainings
      BY <2>3 DEF GiveUp, Reject, Inv, HasRun, At
    <3> QED
      BY <1>2, <2>3, <3>1 DEF GiveUp, Reject
  <2>4. CASE Claim(w) \/ Revert(w) \/ Record(w)
    <3> DEFINE old == training[Of(w)]
               claimed == [old EXCEPT !.status = "dispatching"]
               reverted == [old EXCEPT !.status = IF @ = "dispatching" THEN "queued" ELSE @]
               recorded == IF old.status = "dispatching" /\ old.exec = None
                           THEN [old EXCEPT !.status = "training", !.exec = worker[w].exec]
                           ELSE old
    <3>1. Of(w) \in Trainings /\ old \in Row
      BY <2>4 DEF Claim, Revert, Record, Inv, HasRun, At, RowsOK
    <3>2. claimed.fused = old.fused /\ reverted.fused = old.fused /\ recorded.fused = old.fused
      BY <3>1 DEF Row
    <3>3. \/ training' = [training EXCEPT ![Of(w)] = claimed]
          \/ training' = [training EXCEPT ![Of(w)] = reverted]
          \/ training' = [training EXCEPT ![Of(w)] = recorded]
      BY <2>4 DEF Claim, Revert, Record
    <3> HIDE DEF old, claimed, reverted, recorded
    <3> QED
      BY <3>1, <3>2, <3>3, OneRowKeepsLinks DEF old
  <2>5. CASE FuseNew(w)
    BY <2>5 DEF FuseNew, KeepsLinks, Inv, RowsOK, Row
  <2> QED
    BY <1>7, <2>1, <2>2, <2>3, <2>4, <2>5 DEF Work
<1>8. ASSUME NEW e \in ExecIds,
             Run(e) \/ NeverRuns(e) \/ TrainingFails(e) \/ GenerationFails(e) \/ Dies(e)
      PROVE  KeepsLinks
  BY <1>1, <1>8 DEF Run, Trained, Generate, Generated, NeverRuns, TrainingFails, GenerationFails,
                    Dies, ContainerOnly
<1>9. CASE Watch \/ WatcherDies
  <2>1. CASE Conclude
    BY <1>2, <2>1 DEF Conclude, Inv, HasRun
  <2>2. CASE ConcludeExhausted
    <3>1. PICK lora : FinishUnswept(watch.of, lora)
      BY <2>2 DEF ConcludeExhausted
    <3> QED
      BY <1>1, <2>2, <3>1, SettleKeepsLinks DEF ConcludeExhausted, FinishUnswept, Inv, HasRun
  <2>3. CASE Retry
    <3> DEFINE old == training[watch.of]
               new == [old EXCEPT !.status = "queued", !.exec = None,
                                  !.history = @ \cup {watch.exec}]
    <3>1. watch.of \in Trainings /\ old \in Row /\ training' = [training EXCEPT ![watch.of] = new]
      BY <2>3 DEF Retry, Inv, HasRun, RowsOK
    <3>2. new.fused = old.fused
      BY <3>1 DEF Row
    <3> HIDE DEF new
    <3> QED
      BY <3>1, <3>2, OneRowKeepsLinks
  <2>4. CASE Exhaust
    BY <2>4 DEF Exhaust, KeepsLinks, Inv, RowsOK, Row
  <2>5. CASE AlreadyHandled \/ NoRetry \/ WatcherDies
    BY <1>1, <2>5 DEF AlreadyHandled, NoRetry, WatcherDies
  <2> QED
    BY <1>9, <2>1, <2>2, <2>3, <2>4, <2>5 DEF Watch
<1>10. CASE UNCHANGED vars
  BY <1>1, <1>10 DEF vars
<1> QED
  BY <1>3, <1>4, <1>5, <1>6, <1>7, <1>8, <1>9, <1>10 DEF Next

\* A run keeps the job it was first fused with, through every retry, timeout and failure
\* of its worker.
THEOREM LinkIsPermanent == Spec => FusedForGood
<1>1. Inv /\ [Next]_vars
       => [\A t \in Trainings :
             training[t].fused # None => training'[t].fused = training[t].fused]_vars
  BY NextKeepsLinks DEF KeepsLinks
<1> QED
  BY <1>1, Invariance, PTL DEF Spec, FusedForGood

-----------------------------------------------------------------------------
(* The message of a queued job or run. QueuedIsCarried is not inductive:   *)
(* it lacks that a queued run has no execution, so that no worker drops    *)
(* its message, and that the worker that carries a message has not yet     *)
(* claimed the run.                                                        *)

\* A run that waits for its start has no execution.
Unstarted(t) ==
  training[t].status \in {"absent", "queued", "dispatching"} => training[t].exec = None

\* A worker has the message of a run and has not claimed the run.
Held(t) == \E w \in Workers : At(w, "held") /\ Of(w) = t

CarriedJob(j) == job[j] = "queued" => queue[j] > 0 \/ owed[j] > 0
CarriedRun(t) ==
  training[t].status = "queued" => queue[t] > 0 \/ owed[t] > 0 \/ t \in poisoned \/ Held(t)

Carried ==
  /\ \A j \in Jobs : CarriedJob(j)
  /\ \A t \in Trainings : Unstarted(t) /\ CarriedRun(t)

\* No job and no other run than those named loses its place.
JobsStayCarried == \A j \in Jobs : job'[j] = "queued" => job[j] = "queued" \/ owed'[j] > 0
NothingUnsent == \A i \in Items : owed'[i] >= owed[i] /\ queue'[i] >= queue[i]
OtherHandsStay(t) == \A v \in Workers : Of(v) = t \/ worker'[v] = worker[v]

LEMMA JobsCarried ==
  ASSUME Inv, Inv', Carried, JobsStayCarried, NothingUnsent
  PROVE  \A j \in Jobs : CarriedJob(j)'
<1> SUFFICES ASSUME NEW j \in Jobs, job'[j] = "queued" PROVE queue'[j] > 0 \/ owed'[j] > 0
  BY DEF CarriedJob
<1>1. /\ j \in Items /\ owed[j] \in Nat /\ queue[j] \in Nat
      /\ owed'[j] \in Nat /\ queue'[j] \in Nat
  BY DEF Items, Inv, MessagesOK
<1>2. owed'[j] >= owed[j] /\ queue'[j] >= queue[j]
  BY <1>1 DEF NothingUnsent
<1> QED
  BY <1>1, <1>2 DEF JobsStayCarried, Carried, CarriedJob

\* A run whose row, hands and messages are left alone stays carried.
LEMMA RunCarried ==
  ASSUME Inv, Inv', Carried, NothingUnsent, NEW t \in Trainings,
         training'[t].status = training[t].status, training'[t].exec = training[t].exec,
         t \in poisoned => t \in poisoned',
         \A v \in Workers : At(v, "held") /\ Of(v) = t => worker'[v] = worker[v]
  PROVE  Unstarted(t)' /\ CarriedRun(t)'
<1>1. /\ t \in Items /\ owed[t] \in Nat /\ queue[t] \in Nat
      /\ owed'[t] \in Nat /\ queue'[t] \in Nat
  BY DEF Items, Inv, MessagesOK
<1>2. owed'[t] >= owed[t] /\ queue'[t] >= queue[t]
  BY <1>1 DEF NothingUnsent
<1>3. Unstarted(t)'
  BY DEF Carried, Unstarted
<1>4. Held(t) => Held(t)'
  BY DEF Held, At, Of
<1>5. CarriedRun(t)
  BY DEF Carried
<1> QED
  BY <1>1, <1>2, <1>3, <1>4, <1>5 DEF CarriedRun

\* Steps that touch no run and no message.
LEMMA QuietCarries ==
  ASSUME Inv, Inv', Carried, UNCHANGED <<training, worker, poisoned>>,
         JobsStayCarried, NothingUnsent
  PROVE  Carried'
BY JobsCarried, RunCarried DEF Carried

\* What _finish_training does to the run it ends, to the others and to the messages.
Ends(t) ==
  /\ \A i \in Items : owed'[i] >= owed[i]
  /\ JobsStayCarried
  /\ training'[t].status \in {"completed", "failed"}
  /\ \A s \in Trainings \ {t} : training'[s] = training[s]

LEMMA SettleEnds ==
  ASSUME Inv, NEW t \in Trainings, NEW ok \in BOOLEAN, NEW lora, NEW usable,
         NEW parked \in SUBSET Jobs, Settle(t, ok, lora, usable, parked)
  PROVE  Ends(t)
<1>1. /\ training'[t].status \in {"completed", "failed"}
      /\ \A s \in Trainings \ {t} : training'[s] = training[s]
  BY DEF Settle, Inv, RowsOK, Row
<1>2. \A i \in Items : owed'[i] >= owed[i]
  BY DEF Settle, Owe, Inv, MessagesOK
<1>3. JobsStayCarried
  <2>1. CASE usable /\ parked # {}
    <3>1. /\ job' = [j \in Jobs |-> IF j \in parked THEN "queued" ELSE job[j]]
          /\ Owe(parked)
      BY <2>1 DEF Settle
    <3>2. ASSUME NEW j \in parked PROVE owed'[j] > 0
      BY <3>1, <3>2 DEF Owe, Items, Inv, MessagesOK
    <3> QED
      BY <3>1, <3>2 DEF JobsStayCarried
  <2>2. CASE ~(usable /\ parked # {})
    BY <2>2 DEF Settle, JobsStayCarried
  <2> QED
    BY <2>1, <2>2
<1> QED
  BY <1>1, <1>2, <1>3 DEF Ends

\* A run that has ended already is left alone.
LEMMA AlreadyEnded ==
  ASSUME Inv, NEW t \in Trainings, training[t].status \in {"completed", "failed"},
         UNCHANGED <<job, training, owed>>
  PROVE  Ends(t)
BY DEF Ends, JobsStayCarried, Inv, MessagesOK

LEMMA FinishEnds ==
  ASSUME Inv, NEW t \in Trainings, NEW ok \in BOOLEAN, Finish(t, ok)
  PROVE  Ends(t)
<1>1. InStatus({"waiting_lora"}) \in SUBSET Jobs
  BY DEF InStatus
<1> QED
  BY <1>1, SettleEnds, AlreadyEnded DEF Finish

LEMMA FinishUnsweptEnds ==
  ASSUME Inv, NEW t \in Trainings, NEW lora, FinishUnswept(t, lora)
  PROVE  Ends(t)
<1>1. {} \in SUBSET Jobs /\ FALSE \in BOOLEAN
  OBVIOUS
<1> QED
  BY <1>1, SettleEnds, AlreadyEnded DEF FinishUnswept

\* A step that ends a run, its message and its worker at rest or left alone.
LEMMA EndCarries ==
  ASSUME Inv, Inv', Carried, NEW t \in Trainings, Ends(t), UNCHANGED queue,
         \A s \in poisoned \ {t} : s \in poisoned', OtherHandsStay(t)
  PROVE  Carried'
<1>1. NothingUnsent /\ JobsStayCarried
  BY DEF Ends, NothingUnsent, Inv, MessagesOK
<1>2. Unstarted(t)' /\ CarriedRun(t)'
  BY DEF Ends, Unstarted, CarriedRun
<1>3. ASSUME NEW s \in Trainings \ {t} PROVE Unstarted(s)' /\ CarriedRun(s)'
  BY <1>1, <1>3, RunCarried DEF Ends, OtherHandsStay
<1> QED
  BY <1>1, <1>2, <1>3, JobsCarried DEF Carried

\* A worker moves on with its run, or drops the message of a run that is not queued.
LEMMA WorkerCarries ==
  ASSUME Inv, Inv', Carried, NEW t \in Trainings, OtherHandsStay(t),
         UNCHANGED <<owed, queue, poisoned>>, JobsStayCarried,
         \A s \in Trainings \ {t} : training'[s] = training[s],
         Unstarted(t)' /\ CarriedRun(t)'
  PROVE  Carried'
<1>1. NothingUnsent
  BY DEF NothingUnsent, Inv, MessagesOK
<1>2. ASSUME NEW s \in Trainings \ {t} PROVE Unstarted(s)' /\ CarriedRun(s)'
  BY <1>1, <1>2, RunCarried DEF OtherHandsStay
<1> QED
  BY <1>1, <1>2, JobsCarried DEF Carried

\* The message of a run goes back to the queue or to the poison queue.
LEMMA ReturnCarries ==
  ASSUME Inv, Inv', Carried, NEW t \in Trainings, OtherHandsStay(t),
         UNCHANGED owed, JobsStayCarried,
         \/ queue' = [queue EXCEPT ![t] = @ + 1] /\ UNCHANGED poisoned
         \/ poisoned' = poisoned \cup {t} /\ UNCHANGED queue,
         \A s \in Trainings \ {t} : training'[s] = training[s],
         Unstarted(t)'
  PROVE  Carried'
<1>1. t \in Items /\ queue[t] \in Nat
  BY DEF Items, Inv, MessagesOK
<1>2. NothingUnsent
  BY DEF NothingUnsent, Inv, MessagesOK
<1>3. CarriedRun(t)'
  BY <1>1 DEF CarriedRun, Inv, MessagesOK
<1>4. ASSUME NEW s \in Trainings \ {t} PROVE Unstarted(s)' /\ CarriedRun(s)'
  BY <1>2, <1>4, RunCarried DEF OtherHandsStay
<1> QED
  BY <1>2, <1>3, <1>4, JobsCarried DEF Carried

\* A new row is named, so that its columns are facts and not expressions.
LEMMA NewRow ==
  ASSUME Inv, NEW t \in Trainings, NEW row, training' = [training EXCEPT ![t] = row]
  PROVE  training'[t] = row /\ \A s \in Trainings \ {t} : training'[s] = training[s]
BY DEF Inv, RowsOK

LEMMA ApiCarries ==
  ASSUME Inv, Inv', Carried,
         \/ \E j \in Jobs : Submit(j)
         \/ \E t \in Trainings, force \in BOOLEAN : StartTraining(t, force)
         \/ DeleteAdapter \/ ResetModel \/ Retire
  PROVE  Carried'
<1>1. ASSUME NEW j \in Jobs, Submit(j) PROVE Carried'
  <2>1. NothingUnsent
    BY <1>1 DEF Submit, Owe, NothingUnsent, Inv, MessagesOK
  <2>2. JobsStayCarried
    <3>1. CASE account.lora = "ready"
      <4>1. owed'[j] > 0
        BY <1>1, <3>1 DEF Submit, Owe, Items, Inv, MessagesOK
      <4> QED
        BY <1>1, <3>1, <4>1 DEF Submit, JobsStayCarried, Inv, RowsOK
    <3>2. CASE account.lora # "ready"
      BY <1>1, <3>2 DEF Submit, JobsStayCarried, Inv, RowsOK
    <3> QED
      BY <3>1, <3>2
  <2> QED
    BY <1>1, <2>1, <2>2, QuietCarries DEF Submit
<1>2. ASSUME NEW t \in Trainings, NEW force \in BOOLEAN, StartTraining(t, force) PROVE Carried'
  <2>1. PICK charge : training' = [training EXCEPT ![t].status = "queued", ![t].charge = charge]
    BY <1>2 DEF StartTraining
  <2> DEFINE row == [training[t] EXCEPT !.status = "queued", !.charge = charge]
  <2>2. row.exec = None
    <3>1. training[t] \in Row /\ training[t].exec = None
      BY <1>2 DEF StartTraining, Carried, Unstarted, Inv, RowsOK
    <3> QED
      BY <3>1 DEF Row
  <2>3. training' = [training EXCEPT ![t] = row]
    BY <2>1
  <2> HIDE DEF row
  <2>4. Unstarted(t)' /\ \A s \in Trainings \ {t} : training'[s] = training[s]
    BY <2>2, <2>3, NewRow DEF Unstarted
  <2>5. NothingUnsent /\ owed'[t] > 0
    <3>1. Owe({t}) /\ UNCHANGED queue /\ t \in Items
      BY <1>2 DEF StartTraining, Items
    <3> QED
      BY <3>1 DEF Owe, NothingUnsent, Inv, MessagesOK
  <2>6. CarriedRun(t)'
    BY <2>5 DEF CarriedRun
  <2>7. JobsStayCarried
    BY <1>2 DEF StartTraining, JobsStayCarried
  <2>8. ASSUME NEW s \in Trainings \ {t} PROVE Unstarted(s)' /\ CarriedRun(s)'
    BY <1>2, <2>4, <2>5, <2>8, RunCarried DEF StartTraining
  <2> QED
    BY <2>4, <2>5, <2>6, <2>7, <2>8, JobsCarried DEF Carried
<1>3. CASE DeleteAdapter \/ ResetModel \/ Retire
  BY <1>3, QuietCarries DEF DeleteAdapter, ResetModel, Retire, JobsStayCarried, NothingUnsent,
                            Inv, MessagesOK
<1> QED
  BY <1>1, <1>2, <1>3

\* A row that is sent becomes a message.
LEMMA OutboxCarries ==
  ASSUME Inv, Inv', Carried, NEW i \in Items, Deliver(i) \/ DeliverTwice(i)
  PROVE  Carried'
<1>1. /\ owed[i] > 0 /\ queue' = [queue EXCEPT ![i] = @ + 1]
      /\ owed' = [owed EXCEPT ![i] = @ - 1] \/ owed' = owed
      /\ UNCHANGED <<job, training, worker, poisoned>>
  BY DEF Deliver, DeliverTwice, Enqueue
<1>2. ASSUME NEW k \in Items, queue[k] > 0 \/ owed[k] > 0 PROVE queue'[k] > 0 \/ owed'[k] > 0
  <2>1. queue[k] \in Nat /\ owed[k] \in Nat /\ queue \in [Items -> Nat] /\ owed \in [Items -> Nat]
    BY DEF Inv, MessagesOK
  <2> QED
    BY <1>1, <1>2, <2>1
<1>3. ASSUME NEW j \in Jobs PROVE CarriedJob(j)'
  BY <1>1, <1>2 DEF Carried, CarriedJob, Items
<1>4. ASSUME NEW t \in Trainings PROVE Unstarted(t)' /\ CarriedRun(t)'
  BY <1>1, <1>2 DEF Carried, Unstarted, CarriedRun, Held, At, Of, Items
<1> QED
  BY <1>3, <1>4 DEF Carried

\* Steps of the sweep, of the containers and of the reaper: no job becomes queued.
LEMMA JobOnlyCarries ==
  ASSUME Inv, Inv', Carried, UNCHANGED <<training, worker, poisoned, owed, queue>>,
         \/ UNCHANGED job
         \/ \E j \in Jobs \cup {None} : FailJob(j) \/ Write(j, "processing") \/ Write(j, "completed")
  PROVE  Carried'
<1>1. JobsStayCarried
  <2>1. ASSUME NEW j, NEW s \in {"failed", "processing", "completed"},
               job' = job \/ job' = [job EXCEPT ![j] = s]
        PROVE  JobsStayCarried
    BY <2>1 DEF JobsStayCarried, Inv, RowsOK
  <2>2. ASSUME NEW j, FailJob(j) PROVE JobsStayCarried
    BY <2>1, <2>2 DEF FailJob
  <2>3. ASSUME NEW j, NEW s \in {"processing", "completed"}, Write(j, s) PROVE JobsStayCarried
    BY <2>1, <2>3 DEF Write, JobsStayCarried, Inv, RowsOK
  <2> QED
    BY <2>1, <2>2, <2>3
<1>2. NothingUnsent
  BY DEF NothingUnsent, Inv, MessagesOK
<1> QED
  BY <1>1, <1>2, QuietCarries

LEMMA SweepCarries ==
  ASSUME Inv, Inv', Carried, NEW j \in Jobs,
         FailParked(j) \/ SkipParked(j) \/ Reap(j) \/ Infer(j)
  PROVE  Carried'
BY JobOnlyCarries DEF FailParked, SkipParked, Reap, Infer, ContainerOnly

LEMMA ContainerCarries ==
  ASSUME Inv, Inv', Carried, NEW e \in ExecIds,
         Run(e) \/ NeverRuns(e) \/ TrainingFails(e) \/ GenerationFails(e) \/ Dies(e)
  PROVE  Carried'
<1>1. execs[e].fused \in Jobs \cup {None}
  <2>1. execs[e] \in Execution
    BY DEF Inv, ContainersOK, ExecIds
  <2> QED
    BY <2>1 DEF Execution
<1>2. CASE Generate(e) \/ Generated(e)
  <2>1. /\ ContainerOnly
        /\ Write(execs[e].fused, "processing") \/ Write(execs[e].fused, "completed")
    BY <1>2 DEF Generate, Generated
  <2> QED
    BY <1>1, <2>1, JobOnlyCarries DEF ContainerOnly
<1>3. CASE GenerationFails(e)
  BY <1>1, <1>3, JobOnlyCarries DEF GenerationFails, ContainerOnly
<1>4. CASE Trained(e) \/ NeverRuns(e) \/ TrainingFails(e) \/ Dies(e)
  BY <1>4, JobOnlyCarries DEF Trained, NeverRuns, TrainingFails, Dies, ContainerOnly
<1> QED
  BY <1>2, <1>3, <1>4 DEF Run

LEMMA ServeCarries ==
  ASSUME Inv, Inv', Carried, NEW j \in Jobs, Serve(j)
  PROVE  Carried'
<1>1. /\ queue' = [queue EXCEPT ![j] = @ - 1]
      /\ UNCHANGED <<training, owed, poisoned, worker>>
      /\ job'[j] # "queued"
      /\ \A i \in Jobs \ {j} : job'[i] = job[i]
  BY DEF Serve, Write, JobTerminal, Inv, RowsOK
<1>2. \A i \in Items \ {j} : queue'[i] = queue[i]
  BY <1>1 DEF Inv, MessagesOK
<1>3. ASSUME NEW i \in Jobs PROVE CarriedJob(i)'
  BY <1>1, <1>2 DEF Carried, CarriedJob, Items
<1>4. ASSUME NEW t \in Trainings PROVE Unstarted(t)' /\ CarriedRun(t)'
  <2>1. t \in Items \ {j}
    BY SeparateQueues DEF Items
  <2> QED
    BY <1>1, <1>2, <2>1 DEF Carried, Unstarted, CarriedRun, Held, At, Of
<1> QED
  BY <1>3, <1>4 DEF Carried

LEMMA ReceiveCarries ==
  ASSUME Inv, Inv', Carried, NEW w \in Workers, NEW t \in Trainings, Receive(w, t)
  PROVE  Carried'
<1>1. /\ queue' = [queue EXCEPT ![t] = @ - 1] /\ At(w, "idle")
      /\ UNCHANGED <<training, owed, poisoned, job>>
      /\ worker' = [worker EXCEPT ![w] = [Resting EXCEPT !.pc = "held", !.of = t]]
  BY DEF Receive
<1>2. \A i \in Items \ {t} : queue'[i] = queue[i]
  BY <1>1 DEF Inv, MessagesOK
<1>3. \A j \in Jobs : j \in Items \ {t}
  BY SeparateQueues DEF Items
<1>4. \A j \in Jobs : CarriedJob(j)'
  BY <1>1, <1>2, <1>3 DEF Carried, CarriedJob
<1>5. At(w, "held")' /\ worker'[w].of = t /\ \A v \in Workers \ {w} : worker'[v] = worker[v]
  BY <1>1 DEF At, Inv, WorkersOK, Resting
<1>6. \A s \in Trainings : Held(s) => Held(s)'
  BY <1>1, <1>5 DEF Held, At, Of
<1>7. Held(t)'
  BY <1>5 DEF Held, At, Of
<1>8. ASSUME NEW s \in Trainings PROVE Unstarted(s)' /\ CarriedRun(s)'
  BY <1>1, <1>2, <1>6, <1>7 DEF Carried, Unstarted, CarriedRun, Items
<1> QED
  BY <1>4, <1>8 DEF Carried

\* A worker that handles a run leaves the hands of other runs alone.
LEMMA OneHand ==
  ASSUME Inv, NEW w \in Workers, NEW hand,
         \/ worker' = [worker EXCEPT ![w] = hand]
         \/ \E pc, j : worker' = [worker EXCEPT ![w].pc = pc, ![w].fused = j]
         \/ \E pc, e : worker' = [worker EXCEPT ![w].pc = pc, ![w].exec = e]
         \/ \E pc : worker' = [worker EXCEPT ![w].pc = pc],
         NEW t, Of(w) = t
  PROVE  OtherHandsStay(t)
BY DEF OtherHandsStay, Inv, WorkersOK

\* Handing a message back, to the queue or, when it has failed too often, to the poison queue.
LEMMA HandBackCarries ==
  ASSUME Inv, Inv', Carried, NEW w \in Workers, Defer(w) \/ WorkerDies(w) \/ Revert(w)
  PROVE  Carried'
<1> DEFINE t == Of(w)
<1>1. t \in Trainings
  BY DEF Defer, WorkerDies, Revert, Inv, HasRun, At
<1>2. /\ worker' = [worker EXCEPT ![w] = Resting] /\ UNCHANGED <<job, owed>>
      /\ \/ queue' = [queue EXCEPT ![t] = @ + 1] /\ UNCHANGED poisoned
         \/ poisoned' = poisoned \cup {t} /\ UNCHANGED queue
  BY DEF Defer, WorkerDies, Revert, Return, Rest
<1>3. OtherHandsStay(t) /\ JobsStayCarried
  BY <1>2, OneHand DEF JobsStayCarried
<1>4. Unstarted(t) /\ training[t] \in Row
  BY <1>1 DEF Carried, Inv, RowsOK
<1>5. training' = training
      \/ training' = [training EXCEPT ![t].status = IF @ = "dispatching" THEN "queued" ELSE @]
  BY DEF Defer, WorkerDies, Revert
<1>6. PICK r \in Trainings : r = t
  BY <1>1
<1> HIDE DEF t
<1>7. Unstarted(r)' /\ \A s \in Trainings \ {r} : training'[s] = training[s]
  <2>1. CASE training' = training
    BY <1>4, <1>6, <2>1 DEF Unstarted
  <2>2. CASE training' = [training EXCEPT ![r].status = IF @ = "dispatching" THEN "queued" ELSE @]
    <3> DEFINE row == [training[r] EXCEPT !.status = IF @ = "dispatching" THEN "queued" ELSE @]
    <3>1. row.exec = training[r].exec
          /\ (row.status = training[r].status
              \/ (training[r].status = "dispatching" /\ row.status = "queued"))
      BY <1>4, <1>6 DEF Row
    <3>2. training' = [training EXCEPT ![r] = row]
      BY <2>2
    <3> HIDE DEF row
    <3> QED
      BY <1>4, <1>6, <3>1, <3>2, NewRow DEF Unstarted
  <2> QED
    BY <1>5, <1>6, <2>1, <2>2
<1> QED
  BY <1>2, <1>3, <1>6, <1>7, ReturnCarries

\* The steps that end a run.
LEMMA GiveUpCarries ==
  ASSUME Inv, Inv', Carried, NEW w \in Workers, GiveUp(w) \/ Reject(w)
  PROVE  Carried'
<1>1. PICK t \in Trainings : t = Of(w)
  BY DEF GiveUp, Reject, Inv, HasRun, At
<1>2. /\ Ends(t) /\ UNCHANGED <<queue, poisoned>>
      /\ worker' = [worker EXCEPT ![w] = Resting]
  BY <1>1, FinishEnds DEF GiveUp, Reject, Rest
<1>3. OtherHandsStay(t)
  BY <1>1, <1>2, OneHand
<1> QED
  BY <1>2, <1>3, EndCarries

LEMMA PoisonCarries ==
  ASSUME Inv, Inv', Carried, NEW t \in Trainings, Poison(t)
  PROVE  Carried'
<1>1. /\ Ends(t) /\ UNCHANGED <<queue, worker>> /\ poisoned' = poisoned \ {t}
  BY FinishEnds DEF Poison
<1> QED
  BY <1>1, EndCarries DEF OtherHandsStay

LEMMA ConcludeCarries ==
  ASSUME Inv, Inv', Carried, Conclude \/ ConcludeExhausted
  PROVE  Carried'
<1>1. PICK t \in Trainings : t = watch.of
  BY DEF Conclude, ConcludeExhausted, Inv, HasRun
<1>2. Ends(t)
  <2>1. (watch.verdict = "ok") \in BOOLEAN
    OBVIOUS
  <2>2. CASE Conclude
    BY <1>1, <2>1, <2>2, FinishEnds DEF Conclude
  <2>3. CASE ConcludeExhausted
    BY <1>1, <2>3, FinishUnsweptEnds DEF ConcludeExhausted
  <2> QED
    BY <2>2, <2>3
<1> QED
  BY <1>2, EndCarries DEF Conclude, ConcludeExhausted, WatcherOnly, OtherHandsStay

\* Retry puts a run back, with its message; the other steps of the watcher queue nothing.
LEMMA RetryCarries ==
  ASSUME Inv, Inv', Carried, Retry
  PROVE  Carried'
<1>1. PICK t \in Trainings : t = watch.of
  BY DEF Retry, Inv, HasRun
<1> DEFINE row == [training[t] EXCEPT !.status = "queued", !.exec = None,
                                      !.history = @ \cup {watch.exec}]
<1>2. training' = [training EXCEPT ![t] = row] /\ row.exec = None
  <2>1. training[t] \in Row
    BY DEF Inv, RowsOK
  <2>2. row.exec = None
    BY <2>1 DEF Row
  <2> QED
    BY <1>1, <2>2 DEF Retry
<1> HIDE DEF row
<1>3. Unstarted(t)' /\ \A s \in Trainings \ {t} : training'[s] = training[s]
  BY <1>2, NewRow DEF Unstarted
<1>4. Owe({t}) /\ UNCHANGED <<queue, poisoned, worker>> /\ t \in Items
  BY <1>1 DEF Retry, WatcherOnly, Items
<1>5. NothingUnsent /\ owed'[t] > 0
  BY <1>4 DEF Owe, NothingUnsent, Inv, MessagesOK
<1>6. CarriedRun(t)'
  BY <1>5 DEF CarriedRun
<1>7. JobsStayCarried
  BY DEF Retry, JobsStayCarried, Inv, RowsOK
<1>8. ASSUME NEW s \in Trainings \ {t} PROVE Unstarted(s)' /\ CarriedRun(s)'
  BY <1>3, <1>4, <1>5, <1>8, RunCarried
<1> QED
  BY <1>3, <1>5, <1>6, <1>7, <1>8, JobsCarried DEF Carried

LEMMA ExhaustCarries ==
  ASSUME Inv, Inv', Carried, Exhaust
  PROVE  Carried'
<1>1. PICK t \in Trainings : t = watch.of
  BY DEF Exhaust, Inv, HasRun
<1> DEFINE row == [training[t] EXCEPT !.history = @ \cup {watch.exec}]
<1>2. row.exec = training[t].exec /\ row.status = training[t].status
  <2>1. training[t] \in Row
    BY DEF Inv, RowsOK
  <2> QED
    BY <2>1 DEF Row
<1>3. training' = training \/ training' = [training EXCEPT ![t] = row]
  BY <1>1 DEF Exhaust
<1> HIDE DEF row
<1>4. \A s \in Trainings : training'[s].exec = training[s].exec
                           /\ training'[s].status = training[s].status
  BY <1>2, <1>3, NewRow
<1>5. UNCHANGED <<worker, poisoned, owed, queue>>
  BY DEF Exhaust, WatcherOnly
<1>6. NothingUnsent
  BY <1>5 DEF NothingUnsent, Inv, MessagesOK
<1>7. JobsStayCarried
  BY DEF Exhaust, FailJob, JobsStayCarried, Inv, RowsOK
<1>8. ASSUME NEW s \in Trainings PROVE Unstarted(s)' /\ CarriedRun(s)'
  BY <1>4, <1>5, <1>6, RunCarried
<1> QED
  BY <1>6, <1>7, <1>8, JobsCarried DEF Carried

LEMMA WatchCarries ==
  ASSUME Inv, Inv', Carried,
         \/ \E t \in Trainings : Look(t) \/ Age(t)
         \/ AlreadyHandled \/ NoRetry \/ WatcherDies
  PROVE  Carried'
BY QuietCarries DEF Look, Age, AlreadyHandled, NoRetry, WatcherDies, WatcherOnly,
                    JobsStayCarried, NothingUnsent, Inv, MessagesOK

\* The steps of a worker between its claim and its record.
LEMMA WorkCarries ==
  ASSUME Inv, Inv', Carried, NEW w \in Workers, Work(w)
  PROVE  Carried'
<1>1. PICK t \in Trainings : t = Of(w)
  BY DEF Work, Discard, Claim, FuseNew, FuseAgain, TrainOnly, Start, StartRaises, Unclaim,
         Revert, Record, Inv, HasRun, At
<1>2. t \in Items /\ training[t] \in Row /\ Unstarted(t) /\ CarriedRun(t)
  BY DEF Items, Inv, RowsOK, Carried
<1>3. ASSUME ~At(w, "held") PROVE Held(t) => \E v \in Workers \ {w} : At(v, "held") /\ Of(v) = t
  BY <1>3 DEF Held
<1>4. CASE Revert(w)
  BY <1>4, HandBackCarries
<1>5. CASE Discard(w)
  <2>1. /\ worker' = [worker EXCEPT ![w] = Resting]
        /\ UNCHANGED <<job, training, owed, queue, poisoned>>
        /\ training[t].status # "queued"
    BY <1>1, <1>2, <1>5 DEF Discard, Rest, Unstarted
  <2>2. OtherHandsStay(t)
    BY <1>1, <2>1, OneHand
  <2>3. Unstarted(t)' /\ CarriedRun(t)' /\ JobsStayCarried
    BY <1>2, <2>1 DEF Unstarted, CarriedRun, JobsStayCarried
  <2> QED
    BY <2>1, <2>2, <2>3, WorkerCarries
<1>6. CASE Claim(w)
  <2> DEFINE row == [training[t] EXCEPT !.status = "dispatching"]
  <2>1. row.status = "dispatching" /\ row.exec = None
    BY <1>1, <1>2, <1>6 DEF Claim, Row
  <2>2. /\ training' = [training EXCEPT ![t] = row]
        /\ worker' = [worker EXCEPT ![w].pc = "fuse"]
        /\ UNCHANGED <<job, owed, queue, poisoned>>
    BY <1>1, <1>6 DEF Claim, Go
  <2> HIDE DEF row
  <2>3. /\ training'[t] = row
        /\ \A s \in Trainings \ {t} : training'[s] = training[s]
    BY <2>2, NewRow
  <2>4. OtherHandsStay(t)
    BY <1>1, <2>2, OneHand
  <2>5. Unstarted(t)' /\ CarriedRun(t)' /\ JobsStayCarried
    BY <2>1, <2>2, <2>3 DEF Unstarted, CarriedRun, JobsStayCarried
  <2> QED
    BY <2>2, <2>3, <2>4, <2>5, WorkerCarries
<1>7. CASE Record(w)
  <2> DEFINE row == IF training[t].status = "dispatching" /\ training[t].exec = None
                    THEN [training[t] EXCEPT !.status = "training", !.exec = worker[w].exec]
                    ELSE training[t]
  <2>1. row.status = "training" \/ row = training[t]
    BY <1>2 DEF Row
  <2>2. /\ training' = [training EXCEPT ![t] = row] /\ At(w, "record")
        /\ worker' = [worker EXCEPT ![w] = Resting]
        /\ UNCHANGED <<job, owed, queue, poisoned>>
    BY <1>1, <1>7 DEF Record, Rest
  <2> HIDE DEF row
  <2>3. /\ training'[t] = row
        /\ \A s \in Trainings \ {t} : training'[s] = training[s]
    BY <2>2, NewRow
  <2>4. OtherHandsStay(t)
    BY <1>1, <2>2, OneHand
  <2>5. Held(t) => Held(t)'
    BY <1>3, <2>2 DEF Held, At, Of, Inv, WorkersOK
  <2>6. Unstarted(t)' /\ CarriedRun(t)' /\ JobsStayCarried
    BY <1>2, <2>1, <2>2, <2>3, <2>5 DEF Unstarted, CarriedRun, JobsStayCarried
  <2> QED
    BY <2>2, <2>3, <2>4, <2>6, WorkerCarries
<1>8. CASE \/ FuseNew(w) \/ FuseAgain(w) \/ TrainOnly(w)
           \/ Start(w) \/ StartRaises(w) \/ Unclaim(w)
  <2>1. /\ ~At(w, "held") /\ UNCHANGED <<owed, queue, poisoned>>
        /\ \/ \E pc, j : worker' = [worker EXCEPT ![w].pc = pc, ![w].fused = j]
           \/ \E pc, e : worker' = [worker EXCEPT ![w].pc = pc, ![w].exec = e]
           \/ \E pc : worker' = [worker EXCEPT ![w].pc = pc]
    <3>1. CASE FuseNew(w) \/ FuseAgain(w) \/ TrainOnly(w)
      BY <3>1 DEF FuseNew, FuseAgain, TrainOnly, Bind, At
    <3>2. CASE Start(w)
      BY <3>2 DEF Start, At
    <3>3. CASE StartRaises(w) \/ Unclaim(w)
      BY <3>3 DEF StartRaises, Unclaim, Go, At
    <3> QED
      BY <1>8, <3>1, <3>2, <3>3
  <2>2. OtherHandsStay(t)
    BY <1>1, <2>1, OneHand
  <2>3. \A v \in Workers \ {w} : worker'[v] = worker[v]
    BY <2>1 DEF Inv, WorkersOK
  <2>4. Held(t) => Held(t)'
    BY <1>3, <2>1, <2>3 DEF Held, At, Of
  <2>5. JobsStayCarried
    <3>1. ASSUME NEW j, NEW s \in {"processing", "waiting_lora"},
                 job' = job \/ job' = [job EXCEPT ![j] = s]
                   \/ job' = [job EXCEPT ![j] = IF @ = "processing" THEN s ELSE @]
          PROVE  JobsStayCarried
      BY <3>1 DEF JobsStayCarried, Inv, RowsOK
    <3>2. CASE FuseNew(w) \/ FuseAgain(w)
      BY <3>1, <3>2 DEF FuseNew, FuseAgain
    <3>3. CASE TrainOnly(w) \/ Start(w) \/ StartRaises(w)
      BY <3>3 DEF TrainOnly, Start, StartRaises, JobsStayCarried
    <3>4. CASE Unclaim(w)
      BY <3>1, <3>4 DEF Unclaim
    <3> QED
      BY <1>8, <3>2, <3>3, <3>4
  <2>6. \A s \in Trainings : training'[s].status = training[s].status
                             /\ training'[s].exec = training[s].exec
    BY <1>8 DEF FuseNew, FuseAgain, TrainOnly, Start, StartRaises, Unclaim, Inv, RowsOK, Row
  <2>7. NothingUnsent
    BY <2>1 DEF NothingUnsent, Inv, MessagesOK
  <2>8. ASSUME NEW s \in Trainings \ {t} PROVE Unstarted(s)' /\ CarriedRun(s)'
    BY <2>1, <2>2, <2>6, <2>7, <2>8, RunCarried DEF OtherHandsStay
  <2>9. Unstarted(t)' /\ CarriedRun(t)'
    BY <1>2, <2>1, <2>4, <2>6 DEF Unstarted, CarriedRun
  <2> QED
    BY <2>5, <2>7, <2>8, <2>9, JobsCarried DEF Carried
<1> QED
  BY <1>4, <1>5, <1>6, <1>7, <1>8 DEF Work

LEMMA InitCarried == Init => Carried
BY DEF Init, Carried, CarriedJob, CarriedRun, Unstarted, NoRow

LEMMA NextCarried == Inv /\ Inv' /\ Carried /\ [Next]_vars => Carried'
<1> SUFFICES ASSUME Inv, Inv', Carried, [Next]_vars PROVE Carried'
  OBVIOUS
<1>1. ASSUME NEW j \in Jobs,
             Submit(j) \/ FailParked(j) \/ SkipParked(j) \/ Serve(j) \/ Infer(j) \/ Reap(j)
      PROVE  Carried'
  BY <1>1, ApiCarries, SweepCarries, ServeCarries
<1>2. ASSUME NEW t \in Trainings,
             \/ Poison(t) \/ Look(t) \/ Age(t)
             \/ \E force \in BOOLEAN : StartTraining(t, force)
      PROVE  Carried'
  BY <1>2, PoisonCarries, WatchCarries, ApiCarries
<1>3. CASE DeleteAdapter \/ ResetModel \/ Retire
  BY <1>3, ApiCarries
<1>4. ASSUME NEW i \in Items, Deliver(i) \/ DeliverTwice(i)
      PROVE  Carried'
  BY <1>4, OutboxCarries
<1>5. ASSUME NEW w \in Workers,
             \/ \E t \in Trainings : Receive(w, t)
             \/ Work(w) \/ Defer(w) \/ GiveUp(w) \/ Reject(w) \/ WorkerDies(w)
      PROVE  Carried'
  BY <1>5, ReceiveCarries, WorkCarries, HandBackCarries, GiveUpCarries
<1>6. ASSUME NEW e \in ExecIds,
             Run(e) \/ NeverRuns(e) \/ TrainingFails(e) \/ GenerationFails(e) \/ Dies(e)
      PROVE  Carried'
  BY <1>6, ContainerCarries
<1>7. CASE Watch \/ WatcherDies
  BY <1>7, ConcludeCarries, RetryCarries, ExhaustCarries, WatchCarries DEF Watch
<1>8. CASE UNCHANGED vars
  BY <1>8, JobOnlyCarries DEF vars
<1> QED
  BY <1>1, <1>2, <1>3, <1>4, <1>5, <1>6, <1>7, <1>8 DEF Next

\* With every fault, the message of a queued job or run is in an outbox row, in the queue,
\* in the poison queue, or with the worker that is still to claim the run.
THEOREM NothingQueuedIsLost == Spec => []QueuedIsCarried
<1>1. Carried => QueuedIsCarried
  BY DEF Carried, CarriedJob, CarriedRun, Held, QueuedIsCarried
<1>2. Init => Inv /\ Carried
  BY InitInv, InitCarried
<1>3. Inv /\ Carried /\ [Next]_vars => (Inv /\ Carried)'
  BY NextInv, NextCarried
<1> QED
  BY <1>1, <1>2, <1>3, PTL DEF Spec

-----------------------------------------------------------------------------
(* The adapter of a ready model. Nothing deletes it while the customer     *)
(* does not ask for it and the account is not cleaned up; before it is     *)
(* uploaded, nothing can have concluded that there is one.                 *)

Past == {"trained", "generating", "succeeded"}

NoModel ==
  /\ account.lora # "ready"
  /\ \A t \in Trainings : training[t].status # "completed"
  /\ \A e \in ExecIds : execs[e].phase \notin Past
  /\ watch.verdict # "ok"

Modelled == account.adapter \/ NoModel

\* Steps that keep the adapter and conclude nothing new.
RowsConcludeNothing ==
  /\ account'.adapter = account.adapter
  /\ account'.lora = "ready" => account.lora = "ready"
  /\ \A t \in Trainings : training'[t].status = "completed" => training[t].status = "completed"

LEMMA NothingConcluded ==
  ASSUME Modelled, RowsConcludeNothing,
         \A e \in ExecIds' : execs'[e].phase \in Past =>
                               e \in ExecIds /\ execs[e].phase \in Past,
         watch'.verdict = "ok" => watch.verdict = "ok"
  PROVE  Modelled'
BY DEF Modelled, NoModel, RowsConcludeNothing

\* The containers and the watcher are left alone.
LEMMA SameSights ==
  ASSUME Modelled, RowsConcludeNothing, UNCHANGED execs,
         watch'.verdict = "ok" => watch.verdict = "ok"
  PROVE  Modelled'
BY NothingConcluded DEF ExecIds

LEMMA FailJobRows ==
  ASSUME Inv, NEW j, FailJob(j) \/ UNCHANGED account,
         \A t \in Trainings : training'[t].status = training[t].status
  PROVE  RowsConcludeNothing
BY DEF FailJob, RowsConcludeNothing, Inv, RowsOK, Account

LEMMA SettleRows ==
  ASSUME Inv, NEW t \in Trainings, NEW lora, NEW usable, NEW parked,
         Settle(t, FALSE, lora, usable, parked), lora = "ready" => account.lora = "ready"
  PROVE  RowsConcludeNothing
<1>1. account'.adapter = account.adapter /\ account'.lora = lora
  BY DEF Settle, Inv, RowsOK, Account
<1>2. \A s \in Trainings : training'[s].status = "completed" => training[s].status = "completed"
  BY DEF Settle, Inv, RowsOK, Row
<1> QED
  BY <1>1, <1>2 DEF RowsConcludeNothing

\* A failed run leaves no ready model without an adapter.
LEMMA FinishRows ==
  ASSUME Inv, NoModel, account.adapter = FALSE, NEW t \in Trainings, Finish(t, FALSE)
  PROVE  RowsConcludeNothing
<1>1. Probe = {FALSE}
  BY DEF Probe
<1>2. CASE training[t].status \in {"completed", "failed"}
  BY <1>2 DEF Finish, RowsConcludeNothing
<1>3. CASE training[t].status \notin {"completed", "failed"}
  <2>1. Settle(t, FALSE, "failed", FALSE, InStatus({"waiting_lora"}))
    BY <1>1, <1>3 DEF Finish
  <2> QED
    BY <2>1, SettleRows
<1> QED
  BY <1>2, <1>3

\* Whatever a run that ends concludes, it keeps the adapter.
LEMMA FinishAdapter ==
  ASSUME Inv, account.adapter, NEW t \in Trainings, NEW ok,
         Finish(t, ok) \/ \E lora : FinishUnswept(t, lora)
  PROVE  Modelled'
BY DEF Finish, FinishUnswept, Settle, Modelled, Inv, RowsOK, Account

LEMMA FailedRunModelled ==
  ASSUME Inv, Modelled, NEW t \in Trainings, Finish(t, FALSE), UNCHANGED execs,
         watch'.verdict # "ok"
  PROVE  Modelled'
<1>1. CASE account.adapter
  BY <1>1, FinishAdapter
<1>2. CASE account.adapter = FALSE /\ NoModel
  BY <1>2, FinishRows, SameSights
<1> QED
  BY <1>1, <1>2 DEF Modelled, Inv, RowsOK, Account

LEMMA ApiModelled ==
  ASSUME Inv, Modelled,
         \/ \E j \in Jobs : Submit(j)
         \/ \E t \in Trainings, force \in BOOLEAN : StartTraining(t, force)
  PROVE  Modelled'
<1>1. UNCHANGED <<execs, watch>>
  BY DEF Submit, StartTraining
<1>2. ASSUME NEW j \in Jobs, Submit(j) PROVE RowsConcludeNothing
  BY <1>2 DEF Submit, RowsConcludeNothing, Inv, RowsOK, Account
<1>3. ASSUME NEW t \in Trainings, NEW force \in BOOLEAN, StartTraining(t, force)
      PROVE  RowsConcludeNothing
  <2>1. account'.adapter = account.adapter /\ account'.lora = "training"
    BY <1>3 DEF StartTraining, Inv, RowsOK, Account
  <2>2. PICK charge : training' = [training EXCEPT ![t].status = "queued", ![t].charge = charge]
    BY <1>3 DEF StartTraining
  <2> DEFINE row == [training[t] EXCEPT !.status = "queued", !.charge = charge]
  <2>3. row.status = "queued"
    BY DEF Inv, RowsOK, Row
  <2>4. training' = [training EXCEPT ![t] = row]
    BY <2>2
  <2> HIDE DEF row
  <2> QED
    BY <2>1, <2>3, <2>4, NewRow DEF RowsConcludeNothing
<1> QED
  BY <1>1, <1>2, <1>3, SameSights

\* Steps that leave the account's row, the runs' statuses or both alone.
LEMMA QuietModelled ==
  ASSUME Inv, Modelled, UNCHANGED <<account, training, execs>>,
         watch'.verdict = "ok" => watch.verdict = "ok"
  PROVE  Modelled'
BY SameSights DEF RowsConcludeNothing

LEMMA JobsModelled ==
  ASSUME Inv, Modelled, NEW j \in Jobs,
         FailParked(j) \/ SkipParked(j) \/ Serve(j) \/ Infer(j) \/ Reap(j)
  PROVE  Modelled'
<1>1. UNCHANGED <<training, execs, watch>> /\ (FailJob(j) \/ UNCHANGED account)
  BY DEF FailParked, SkipParked, Serve, Infer, Reap, ContainerOnly
<1> QED
  BY <1>1, FailJobRows, SameSights

LEMMA WorkerModelled ==
  ASSUME Inv, Modelled, NEW w \in Workers,
         \/ \E t \in Trainings : Receive(w, t)
         \/ Work(w) \/ Defer(w) \/ GiveUp(w) \/ Reject(w) \/ WorkerDies(w)
  PROVE  Modelled'
<1>1. CASE GiveUp(w) \/ Reject(w)
  <2>1. PICK t \in Trainings : t = Of(w)
    BY <1>1 DEF GiveUp, Reject, Inv, HasRun, At
  <2>2. CASE account.adapter
    BY <1>1, <2>1, <2>2, FinishAdapter DEF GiveUp, Reject
  <2>3. CASE account.adapter = FALSE /\ NoModel
    BY <1>1, <2>1, <2>3, FinishRows, SameSights DEF GiveUp, Reject
  <2> QED
    BY <2>2, <2>3 DEF Modelled, Inv, RowsOK, Account
<1>2. CASE Start(w) \/ StartRaises(w)
  <2>1. RowsConcludeNothing /\ UNCHANGED watch
    BY <1>2 DEF Start, StartRaises, RowsConcludeNothing
  <2>2. UNCHANGED execs \/ Launch(w)
    BY <1>2 DEF Start, StartRaises
  <2> DEFINE new == [of |-> Of(w), fused |-> worker[w].fused, phase |-> "training"]
  <2>3. CASE Launch(w)
    <3>1. execs' = Append(execs, new) /\ execs \in Seq(Execution) /\ new.phase \notin Past
      BY <2>3 DEF Launch, Inv, ContainersOK, Past
    <3> HIDE DEF new
    <3>2. ASSUME NEW e \in ExecIds', execs'[e].phase \in Past
          PROVE  e \in ExecIds /\ execs[e].phase \in Past
      BY <3>1, <3>2 DEF ExecIds
    <3> QED
      BY <2>1, <3>2, NothingConcluded
  <2> QED
    BY <2>1, <2>2, <2>3, SameSights
<1>3. CASE \/ \E t \in Trainings : Receive(w, t)
           \/ Discard(w) \/ Defer(w) \/ WorkerDies(w)
           \/ FuseAgain(w) \/ TrainOnly(w) \/ Unclaim(w)
  BY <1>3, QuietModelled DEF Receive, Discard, Defer, WorkerDies, FuseAgain, TrainOnly, Unclaim
<1>4. CASE Claim(w) \/ FuseNew(w) \/ Revert(w) \/ Record(w)
  <2>1. UNCHANGED <<account, execs, watch>>
    BY <1>4 DEF Claim, FuseNew, Revert, Record
  <2>2. PICK t \in Trainings : t = Of(w)
    BY <1>4 DEF Claim, FuseNew, Revert, Record, Inv, HasRun, At
  <2>3. training[t] \in Row
    BY DEF Inv, RowsOK
  <2>4. ASSUME NEW row, row.status = "completed" => training[t].status = "completed",
               training' = [training EXCEPT ![t] = row]
        PROVE  RowsConcludeNothing
    BY <2>1, <2>4, NewRow DEF RowsConcludeNothing
  <2>5. CASE Claim(w)
    <3> DEFINE row == [training[t] EXCEPT !.status = "dispatching"]
    <3>1. row.status # "completed" /\ training' = [training EXCEPT ![t] = row]
      BY <2>2, <2>3, <2>5 DEF Claim, Row
    <3> HIDE DEF row
    <3> QED
      BY <2>1, <2>4, <3>1, SameSights
  <2>6. CASE FuseNew(w)
    <3>1. PICK j : training' = [training EXCEPT ![t].fused = j]
      BY <2>2, <2>6 DEF FuseNew
    <3> DEFINE row == [training[t] EXCEPT !.fused = j]
    <3>2. row.status = training[t].status /\ training' = [training EXCEPT ![t] = row]
      BY <2>3, <3>1 DEF Row
    <3> HIDE DEF row
    <3> QED
      BY <2>1, <2>4, <3>2, SameSights
  <2>7. CASE Revert(w)
    <3> DEFINE row == [training[t] EXCEPT
                         !.status = IF @ = "dispatching" THEN "queued" ELSE @]
    <3>1. (row.status = "completed" => training[t].status = "completed")
          /\ training' = [training EXCEPT ![t] = row]
      BY <2>2, <2>3, <2>7 DEF Revert, Row
    <3> HIDE DEF row
    <3> QED
      BY <2>1, <2>4, <3>1, SameSights
  <2>8. CASE Record(w)
    <3> DEFINE row == IF training[t].status = "dispatching" /\ training[t].exec = None
                      THEN [training[t] EXCEPT !.status = "training", !.exec = worker[w].exec]
                      ELSE training[t]
    <3>1. (row.status = "completed" => training[t].status = "completed")
          /\ training' = [training EXCEPT ![t] = row]
      BY <2>2, <2>3, <2>8 DEF Record, Row
    <3> HIDE DEF row
    <3> QED
      BY <2>1, <2>4, <3>1, SameSights
  <2> QED
    BY <1>4, <2>5, <2>6, <2>7, <2>8
<1> QED
  BY <1>1, <1>2, <1>3, <1>4 DEF Work

\* An execution that trained has uploaded the adapter; the others conclude nothing.
LEMMA ContainerModelled ==
  ASSUME Inv, Modelled, NEW e \in ExecIds,
         Run(e) \/ NeverRuns(e) \/ TrainingFails(e) \/ GenerationFails(e) \/ Dies(e)
  PROVE  Modelled'
<1>1. UNCHANGED <<training, watch>>
  BY DEF Run, Trained, Generate, Generated, NeverRuns, TrainingFails, GenerationFails, Dies,
         ContainerOnly
<1>2. CASE Trained(e)
  BY <1>2 DEF Trained, Modelled, Inv, RowsOK, Account
<1>3. ASSUME NEW p, Phase(e, p), p \in Past => execs[e].phase \in Past,
             FailJob(execs[e].fused) \/ UNCHANGED account
      PROVE  Modelled'
  <2> DEFINE new == [execs[e] EXCEPT !.phase = p]
  <2>1. execs[e] \in Execution /\ execs \in Seq(Execution)
    BY DEF Inv, ContainersOK, ExecIds
  <2>2. new.phase = p /\ execs' = [execs EXCEPT ![e] = new]
    BY <1>3, <2>1 DEF Phase, Execution
  <2> HIDE DEF new
  <2>3. ExecIds' = ExecIds /\ execs'[e] = new /\ \A f \in ExecIds \ {e} : execs'[f] = execs[f]
    BY <2>1, <2>2 DEF ExecIds
  <2>4. RowsConcludeNothing
    BY <1>1, <1>3, FailJobRows
  <2>5. ASSUME NEW f \in ExecIds', execs'[f].phase \in Past
        PROVE  f \in ExecIds /\ execs[f].phase \in Past
    BY <1>3, <2>2, <2>3, <2>5
  <2> QED
    BY <1>1, <2>4, <2>5, NothingConcluded
<1>4. CASE Generate(e)
  BY <1>3, <1>4 DEF Generate, Past
<1>5. CASE Generated(e)
  BY <1>3, <1>5 DEF Generated, Past
<1>6. CASE NeverRuns(e) \/ TrainingFails(e) \/ Dies(e)
  BY <1>3, <1>6 DEF NeverRuns, TrainingFails, Dies, Past
<1>7. CASE GenerationFails(e)
  BY <1>3, <1>7 DEF GenerationFails, Past
<1> QED
  BY <1>2, <1>4, <1>5, <1>6, <1>7 DEF Run

\* The watcher sees 'ok' only of an execution that succeeded, and believes nothing else.
LEMMA LookModelled ==
  ASSUME Inv, Modelled, NEW t \in Trainings, Look(t) \/ Age(t)
  PROVE  Modelled'
<1>1. UNCHANGED <<account, training, execs>>
  BY DEF Look, Age, WatcherOnly
<1>2. CASE account.adapter
  BY <1>1, <1>2 DEF Modelled
<1>3. CASE NoModel
  <2>1. watch'.verdict # "ok"
    <3>1. CASE Age(t)
      BY <3>1 DEF Age, Sees
    <3>2. CASE Look(t)
      <4>1. PICK v \in Verdicts(execs[training[t].exec].phase) : Sees(t, v)
        BY <3>2 DEF Look
      <4>2. training[t].exec \in ExecIds
        BY <3>2 DEF Look, Inv, RowsOK, Row
      <4>3. execs[training[t].exec].phase # "succeeded"
        BY <1>3, <4>2 DEF NoModel, Past
      <4>4. v # "ok"
        BY <4>1, <4>3 DEF Verdicts
      <4> QED
        BY <4>1, <4>4 DEF Sees
    <3> QED
      BY <3>1, <3>2
  <2> QED
    BY <1>1, <2>1, QuietModelled
<1> QED
  BY <1>2, <1>3 DEF Modelled

LEMMA WatchModelled ==
  ASSUME Inv, Modelled, Watch \/ WatcherDies
  PROVE  Modelled'
<1>1. UNCHANGED execs
  BY DEF Watch, WatcherDies, Conclude, Retry, AlreadyHandled, NoRetry, Exhaust,
         ConcludeExhausted, WatcherOnly
<1>2. ASSUME NEW v \in {"spent", "exhausted"}, watch' = [watch EXCEPT !.verdict = v]
      PROVE  watch'.verdict # "ok"
  BY <1>2 DEF Inv, WatcherOK, Sight
<1>3. Done => watch'.verdict # "ok"
  BY DEF Done, NoWatch
<1>4. CASE Conclude
  <2>1. watch.of \in Trainings /\ Done
    BY <1>4 DEF Conclude, Inv, HasRun
  <2>2. CASE account.adapter
    BY <1>4, <2>1, <2>2, FinishAdapter DEF Conclude
  <2>3. CASE account.adapter = FALSE /\ NoModel
    <3>1. Finish(watch.of, FALSE)
      BY <1>4, <2>3 DEF Conclude, NoModel
    <3> QED
      BY <1>1, <1>3, <2>1, <2>3, <3>1, FinishRows, SameSights
  <2> QED
    BY <2>2, <2>3 DEF Modelled, Inv, RowsOK, Account
<1>5. CASE ConcludeExhausted
  <2>1. watch.of \in Trainings /\ Done
    BY <1>5 DEF ConcludeExhausted, Inv, HasRun
  <2>2. CASE account.adapter
    BY <1>5, <2>1, <2>2, FinishAdapter DEF ConcludeExhausted
  <2>3. CASE account.adapter = FALSE /\ NoModel
    <3>1. FinishUnswept(watch.of, "failed")
      BY <1>5, <2>3 DEF ConcludeExhausted, NoModel
    <3>2. RowsConcludeNothing
      BY <2>1, <3>1, SettleRows DEF FinishUnswept, RowsConcludeNothing
    <3> QED
      BY <1>1, <1>3, <2>1, <3>2, SameSights
  <2> QED
    BY <2>2, <2>3 DEF Modelled, Inv, RowsOK, Account
<1>6. CASE Retry
  <2>1. PICK t \in Trainings : t = watch.of
    BY <1>6 DEF Retry, Inv, HasRun
  <2> DEFINE row == [training[t] EXCEPT !.status = "queued", !.exec = None,
                                        !.history = @ \cup {watch.exec}]
  <2>2. row.status = "queued"
    BY DEF Inv, RowsOK, Row
  <2>3. training' = [training EXCEPT ![t] = row]
    BY <1>6, <2>1 DEF Retry
  <2> HIDE DEF row
  <2>4. RowsConcludeNothing
    <3>1. training'[t].status = "queued" /\ \A s \in Trainings \ {t} : training'[s] = training[s]
      BY <2>2, <2>3, NewRow
    <3> QED
      BY <1>6, <3>1 DEF Retry, RowsConcludeNothing
  <2> QED
    BY <1>1, <1>3, <1>6, <2>4, SameSights DEF Retry
<1>7. CASE Exhaust
  <2>1. PICK t \in Trainings : t = watch.of
    BY <1>7 DEF Exhaust, Inv, HasRun
  <2> DEFINE row == [training[t] EXCEPT !.history = @ \cup {watch.exec}]
  <2>2. row.status = training[t].status
    <3>1. training[t] \in Row
      BY DEF Inv, RowsOK
    <3> QED
      BY <3>1 DEF Row
  <2>3. training' = training \/ training' = [training EXCEPT ![t] = row]
    BY <1>7, <2>1 DEF Exhaust
  <2> HIDE DEF row
  <2>4. \A s \in Trainings : training'[s].status = training[s].status
    BY <2>2, <2>3, NewRow
  <2>5. RowsConcludeNothing
    BY <1>7, <2>4, FailJobRows DEF Exhaust
  <2> QED
    BY <1>1, <1>2, <1>7, <2>5, SameSights DEF Exhaust
<1>8. CASE AlreadyHandled \/ NoRetry \/ WatcherDies
  BY <1>1, <1>2, <1>3, <1>8, QuietModelled DEF AlreadyHandled, NoRetry, WatcherDies
<1> QED
  BY <1>4, <1>5, <1>6, <1>7, <1>8 DEF Watch

LEMMA NextModelled ==
  ASSUME {"reset", "retention"} \cap Faults = {}, Inv, Modelled, [Next]_vars
  PROVE  Modelled'
<1>1. ASSUME NEW j \in Jobs,
             Submit(j) \/ FailParked(j) \/ SkipParked(j) \/ Serve(j) \/ Infer(j) \/ Reap(j)
      PROVE  Modelled'
  BY <1>1, ApiModelled, JobsModelled
<1>2. ASSUME NEW t \in Trainings,
             \/ Poison(t) \/ Look(t) \/ Age(t)
             \/ \E force \in BOOLEAN : StartTraining(t, force)
      PROVE  Modelled'
  <2>1. CASE Poison(t)
    <3>1. CASE account.adapter
      BY <2>1, <3>1, FinishAdapter DEF Poison
    <3>2. CASE account.adapter = FALSE /\ NoModel
      BY <2>1, <3>2, FinishRows, SameSights DEF Poison
    <3> QED
      BY <3>1, <3>2 DEF Modelled, Inv, RowsOK, Account
  <2> QED
    BY <1>2, <2>1, LookModelled, ApiModelled
<1>3. ~(DeleteAdapter \/ ResetModel \/ Retire)
  BY DEF DeleteAdapter, ResetModel, Retire
<1>4. ASSUME NEW i \in Items, Deliver(i) \/ DeliverTwice(i)
      PROVE  Modelled'
  BY <1>4, QuietModelled DEF Deliver, DeliverTwice
<1>5. ASSUME NEW w \in Workers,
             \/ \E t \in Trainings : Receive(w, t)
             \/ Work(w) \/ Defer(w) \/ GiveUp(w) \/ Reject(w) \/ WorkerDies(w)
      PROVE  Modelled'
  BY <1>5, WorkerModelled
<1>6. ASSUME NEW e \in ExecIds,
             Run(e) \/ NeverRuns(e) \/ TrainingFails(e) \/ GenerationFails(e) \/ Dies(e)
      PROVE  Modelled'
  BY <1>6, ContainerModelled
<1>7. CASE Watch \/ WatcherDies
  BY <1>7, WatchModelled
<1>8. CASE UNCHANGED vars
  BY <1>8, QuietModelled DEF vars
<1> QED
  BY <1>1, <1>2, <1>3, <1>4, <1>5, <1>6, <1>7, <1>8 DEF Next

\* Unless the customer deletes the model or the account is cleaned up, 'ready' means that
\* the adapter is in blob storage, whatever fails and whatever the watcher concludes.
THEOREM ReadyMeansAdapter ==
  ASSUME {"reset", "retention"} \cap Faults = {}
  PROVE  Spec => []ReadyHasAdapter
<1>1. Inv /\ Modelled => ReadyHasAdapter
  BY DEF Modelled, NoModel, ReadyHasAdapter
<1>2. Init => Inv /\ Modelled
  <2>1. Init => Modelled
    BY DEF Init, Modelled, NoModel, NoRow, NoWatch, ExecIds, Past
  <2> QED
    BY <2>1, InitInv
<1>3. Inv /\ Modelled /\ [Next]_vars => (Inv /\ Modelled)'
  BY NextInv, NextModelled
<1> QED
  BY <1>1, <1>2, <1>3, PTL DEF Spec

-----------------------------------------------------------------------------
(* The run a parked job waits for. The gate parks a job while lora_status  *)
(* is 'training'; that a run is in flight then is the invariant that makes *)
(* it safe. What ends a run releases or dooms everybody parked; only an    *)
(* exhausted run leaves them, and stays the evidence of it.                *)

SomeRun == \E t \in Trainings : training[t].status \in InFlight
Parked == InStatus({"waiting_lora"})
ParkedOK == Parked # {} => SomeRun \/ Parked \subseteq doomed \/ Exhausted

\* No claimed job is parked again.
NoUnclaim == \A w \in Workers : worker[w].pc \notin {"unclaim", "revert"}

\* What the watcher knows of a run that never ran stays true of it.
WatchOK ==
  /\ watch.verdict \in {"neverRan", "spent", "exhausted"} => execs[watch.exec].phase = "neverRan"
  /\ watch.verdict \in {"spent", "exhausted"} => training[watch.of].exec = watch.exec

Awaited ==
  /\ account.lora = "training" => SomeRun
  /\ NoUnclaim /\ WatchOK /\ ParkedOK

\* What is over stays over.
OverStays ==
  /\ \A t \in Trainings : training[t].status = "failed" =>
       training'[t].status = "failed" /\ training'[t].exec = training[t].exec
  /\ \A e \in ExecIds : execs[e].phase = "neverRan" =>
       e \in ExecIds' /\ execs'[e].phase = "neverRan"

LEMMA ExhaustedStays ==
  ASSUME Inv, OverStays, Exhausted PROVE Exhausted'
<1>1. PICK t \in Trainings : /\ training[t].status = "failed" /\ training[t].exec # None
                             /\ execs[training[t].exec].phase = "neverRan"
  BY DEF Exhausted
<1>2. training[t].exec \in ExecIds
  BY <1>1 DEF Inv, RowsOK, Row
<1> QED
  BY <1>1, <1>2 DEF OverStays, Exhausted

\* Nobody is parked, no run ends and no job is struck off the list of the doomed.
AwaitSame ==
  /\ account'.lora = "training" => account.lora = "training" \/ SomeRun'
  /\ SomeRun => SomeRun'
  /\ \A j \in Jobs : job'[j] = "waiting_lora" =>
       job[j] = "waiting_lora" /\ (j \in doomed => j \in doomed')

LEMMA StillAwaited ==
  ASSUME Inv, Awaited, OverStays, AwaitSame, NoUnclaim', WatchOK'
  PROVE  Awaited'
<1>1. Parked' \subseteq Parked
  BY DEF Parked, InStatus, AwaitSame
<1>2. Parked \subseteq doomed => Parked' \subseteq doomed'
  BY DEF Parked, InStatus, AwaitSame
<1>3. ParkedOK'
  BY <1>1, <1>2, ExhaustedStays DEF ParkedOK, Awaited, AwaitSame
<1>4. account'.lora = "training" => SomeRun'
  BY DEF Awaited, AwaitSame
<1> QED
  BY <1>3, <1>4 DEF Awaited

\* The watcher and what it knows about are left alone.
LEMMA WatchStays ==
  ASSUME Inv, Awaited, OverStays, UNCHANGED watch,
         \A t \in Trainings : training[t].exec # None => training'[t].exec = training[t].exec
  PROVE  WatchOK'
<1>1. watch.verdict \in {"neverRan", "spent", "exhausted"} =>
        watch.exec \in ExecIds /\ watch.of \in Trainings /\ watch.exec # None
  BY DEF Inv, HasRun, ExecIds
<1> QED
  BY <1>1 DEF WatchOK, Awaited, OverStays

\* Steps that leave the runs, the executions and the account's status alone.
LEMMA QuietAwaited ==
  ASSUME Inv, Awaited, UNCHANGED <<training, execs>>, account'.lora = account.lora,
         \A j \in Jobs : job'[j] = "waiting_lora" =>
           job[j] = "waiting_lora" /\ (j \in doomed => j \in doomed'),
         NoUnclaim', UNCHANGED watch \/ WatchOK'
  PROVE  Awaited'
<1>1. OverStays
  BY DEF OverStays, ExecIds
<1>2. AwaitSame
  BY DEF AwaitSame, SomeRun
<1>3. WatchOK'
  BY <1>1, WatchStays
<1> QED
  BY <1>1, <1>2, <1>3, StillAwaited

LEMMA WorkersStay ==
  ASSUME Inv, Awaited, NEW w \in Workers, NEW hand, hand.pc \notin {"unclaim", "revert"},
         worker' = worker \/ worker' = [worker EXCEPT ![w] = hand]
  PROVE  NoUnclaim'
BY DEF Awaited, NoUnclaim, Inv, WorkersOK

LEMMA SubmitAwaited ==
  ASSUME Inv, Awaited, NEW j \in Jobs, Submit(j)
  PROVE  Awaited'
<1>1. account'.lora = account.lora /\ UNCHANGED <<training, execs, worker, watch, doomed>>
  BY DEF Submit, Inv, RowsOK, Account
<1>2. NoUnclaim'
  BY <1>1 DEF Awaited, NoUnclaim
<1>3. CASE account.lora = "ready"
  <2>1. job' = [job EXCEPT ![j] = "queued"]
    BY <1>3 DEF Submit
  <2> QED
    BY <1>1, <1>2, <2>1, QuietAwaited DEF Inv, RowsOK
<1>4. CASE account.lora = "training"
  <2>1. SomeRun'
    BY <1>1, <1>4 DEF Awaited, SomeRun
  <2>2. OverStays
    BY <1>1 DEF OverStays, ExecIds
  <2> QED
    BY <1>1, <1>2, <2>1, <2>2, WatchStays DEF Awaited, ParkedOK
<1> QED
  BY <1>3, <1>4 DEF Submit

LEMMA StartTrainingAwaited ==
  ASSUME Inv, Awaited, NEW t \in Trainings, NEW force \in BOOLEAN, StartTraining(t, force)
  PROVE  Awaited'
<1>1. PICK charge : training' = [training EXCEPT ![t].status = "queued", ![t].charge = charge]
  BY DEF StartTraining
<1> DEFINE row == [training[t] EXCEPT !.status = "queued", !.charge = charge]
<1>2. row.status = "queued" /\ row.exec = training[t].exec /\ training[t].status # "failed"
  <2>1. training[t] \in Row
    BY DEF Inv, RowsOK
  <2> QED
    BY <2>1 DEF StartTraining, Row
<1>3. training' = [training EXCEPT ![t] = row]
  BY <1>1
<1> HIDE DEF row
<1>4. training'[t] = row /\ \A s \in Trainings \ {t} : training'[s] = training[s]
  BY <1>3, NewRow
<1>5. UNCHANGED <<job, execs, worker, watch, doomed>>
  BY DEF StartTraining
<1>6. OverStays /\ SomeRun'
  BY <1>2, <1>4, <1>5 DEF OverStays, ExecIds, SomeRun, InFlight
<1>7. AwaitSame
  BY <1>5, <1>6 DEF AwaitSame
<1>8. WatchOK'
  BY <1>2, <1>4, <1>5, <1>6, WatchStays
<1>9. NoUnclaim'
  BY <1>5 DEF Awaited, NoUnclaim
<1> QED
  BY <1>6, <1>7, <1>8, <1>9, StillAwaited

\* A run that ends leaves nobody parked who is not doomed, and 'training' behind.
LEMMA FinishAwaited ==
  ASSUME Inv, Awaited, NEW t \in Trainings, NEW ok \in BOOLEAN, Finish(t, ok),
         UNCHANGED execs, NoUnclaim', UNCHANGED watch \/ watch'.verdict = "none"
  PROVE  Awaited'
<1>1. CASE training[t].status \in {"completed", "failed"}
  <2>1. UNCHANGED <<account, job, training, doomed>>
    BY <1>1 DEF Finish
  <2> QED
    BY <2>1, QuietAwaited DEF WatchOK
<1>2. CASE training[t].status \notin {"completed", "failed"}
  <2>1. PICK found \in Probe :
          Settle(t, ok, IF ok \/ found THEN "ready" ELSE "failed", ok \/ found, Parked)
    BY <1>2 DEF Finish, Parked
  <2>2. account'.lora # "training"
    BY <2>1 DEF Settle, Inv, RowsOK, Account
  <2>3. Parked' \subseteq doomed'
    <3>1. CASE (ok \/ found) /\ Parked # {}
      BY <2>1, <3>1 DEF Settle, Parked, InStatus
    <3>2. CASE ~((ok \/ found) /\ Parked # {})
      BY <2>1, <3>2 DEF Settle, Parked, InStatus
    <3> QED
      BY <3>1, <3>2
  <2>4. OverStays /\ \A s \in Trainings : training'[s].exec = training[s].exec
    BY <1>2, <2>1 DEF Settle, OverStays, ExecIds, Inv, RowsOK, Row
  <2>5. WatchOK'
    BY <2>4, WatchStays DEF WatchOK
  <2> QED
    BY <2>2, <2>3, <2>5 DEF Awaited, ParkedOK
<1> QED
  BY <1>1, <1>2

\* An exhausted run is failed without a sweep, and is what the properties name.
LEMMA ExhaustedAwaited ==
  ASSUME Inv, Awaited, ConcludeExhausted
  PROVE  Awaited'
<1>1. PICK t \in Trainings : t = watch.of
  BY DEF ConcludeExhausted, Inv, HasRun
<1>2. /\ UNCHANGED <<execs, worker>> /\ watch'.verdict = "none" /\ NoUnclaim'
  BY DEF ConcludeExhausted, WatcherOnly, Done, NoWatch, Awaited, NoUnclaim
<1>3. WatchOK'
  BY <1>2 DEF WatchOK
<1>4. CASE training[t].status \in {"completed", "failed"}
  <2>1. UNCHANGED <<account, job, training, doomed>>
    BY <1>1, <1>4 DEF ConcludeExhausted, FinishUnswept
  <2> QED
    BY <1>2, <1>3, <2>1, QuietAwaited
<1>5. CASE training[t].status \notin {"completed", "failed"}
  <2>1. PICK lora \in {"ready", "failed"} : Settle(t, FALSE, lora, FALSE, {})
    BY <1>1, <1>5 DEF ConcludeExhausted, FinishUnswept
  <2>2. account'.lora # "training"
    BY <2>1 DEF Settle, Inv, RowsOK, Account
  <2>3. training[t].exec \in ExecIds /\ execs[training[t].exec].phase = "neverRan"
    BY <1>1 DEF ConcludeExhausted, Awaited, WatchOK, Inv, HasRun
  <2>4. training'[t].status = "failed" /\ training'[t].exec = training[t].exec
    BY <2>1 DEF Settle, Inv, RowsOK, Row
  <2>5. Exhausted'
    BY <1>2, <2>3, <2>4 DEF Exhausted, ExecIds
  <2> QED
    BY <1>2, <1>3, <2>2, <2>5 DEF Awaited, ParkedOK
<1> QED
  BY <1>4, <1>5

\* Steps that change only jobs, messages and the account's other columns.
LEMMA JobsAwaited ==
  ASSUME Inv, Awaited, NEW j \in Jobs,
         \/ FailParked(j) \/ Serve(j) \/ Infer(j) \/ Reap(j)
  PROVE  Awaited'
<1>1. UNCHANGED <<training, execs, watch, worker>>
  BY DEF FailParked, Serve, Infer, Reap, ContainerOnly
<1>2. NoUnclaim'
  BY <1>1 DEF Awaited, NoUnclaim
<1>3. account'.lora = account.lora
  BY DEF FailParked, Serve, Infer, Reap, FailJob, Inv, RowsOK, Account
<1>4. ASSUME NEW i \in Jobs, job'[i] = "waiting_lora"
      PROVE  job[i] = "waiting_lora" /\ (i \in doomed => i \in doomed')
  <2>1. CASE FailParked(j)
    <3>1. job'[j] # "waiting_lora"
      BY <2>1 DEF FailParked, FailJob, JobTerminal, Inv, RowsOK
    <3> QED
      BY <1>4, <2>1, <3>1 DEF FailParked, FailJob, Inv, RowsOK
  <2>2. CASE Serve(j)
    BY <1>4, <2>2 DEF Serve, Write, Inv, RowsOK
  <2>3. CASE Infer(j)
    BY <1>4, <2>3 DEF Infer, Write, FailJob, ContainerOnly, Inv, RowsOK
  <2>4. CASE Reap(j)
    BY <1>4, <2>4 DEF Reap, FailJob, Inv, RowsOK
  <2> QED
    BY <2>1, <2>2, <2>3, <2>4
<1> QED
  BY <1>1, <1>2, <1>3, <1>4, QuietAwaited

LEMMA ModelAwaited ==
  ASSUME Inv, Awaited, DeleteAdapter \/ ResetModel \/ Retire
  PROVE  Awaited'
<1>1. UNCHANGED <<job, training, execs, watch, worker, doomed>>
  BY DEF DeleteAdapter, ResetModel, Retire
<1>2. NoUnclaim' /\ OverStays /\ SomeRun' = SomeRun
  BY <1>1 DEF Awaited, NoUnclaim, OverStays, ExecIds, SomeRun
<1>3. account'.lora = "training" => account.lora = "training"
  BY DEF DeleteAdapter, ResetModel, Retire, Inv, RowsOK, Account
<1>4. AwaitSame
  BY <1>1, <1>2, <1>3 DEF AwaitSame
<1> QED
  BY <1>1, <1>2, <1>4, WatchStays, StillAwaited

LEMMA OutboxAwaited ==
  ASSUME Inv, Awaited, NEW i \in Items, Deliver(i) \/ DeliverTwice(i)
  PROVE  Awaited'
<1>1. UNCHANGED <<account, job, training, execs, watch, worker, doomed>>
  BY DEF Deliver, DeliverTwice
<1> QED
  BY <1>1, QuietAwaited DEF Awaited, NoUnclaim

LEMMA ContainerAwaited ==
  ASSUME Inv, Awaited, NEW e \in ExecIds,
         Run(e) \/ NeverRuns(e) \/ TrainingFails(e) \/ GenerationFails(e) \/ Dies(e)
  PROVE  Awaited'
<1>1. ContainerOnly /\ execs[e] \in Execution /\ execs \in Seq(Execution)
  BY DEF Run, Trained, Generate, Generated, NeverRuns, TrainingFails, GenerationFails, Dies,
         Inv, ContainersOK, ExecIds
<1>2. PICK p : Phase(e, p) /\ execs[e].phase # "neverRan"
  <2>1. CASE Trained(e) \/ Generate(e) \/ Generated(e)
    BY <2>1 DEF Trained, Generate, Generated
  <2>2. CASE NeverRuns(e) \/ TrainingFails(e) \/ GenerationFails(e)
    BY <2>2 DEF NeverRuns, TrainingFails, GenerationFails
  <2>3. CASE Dies(e)
    BY <2>3 DEF Dies, Live, Ended
  <2> QED
    BY <2>1, <2>2, <2>3 DEF Run
<1>3. ExecIds' = ExecIds /\ \A f \in ExecIds \ {e} : execs'[f] = execs[f]
  BY <1>1, <1>2 DEF Phase, ExecIds
<1>4. OverStays
  BY <1>1, <1>2, <1>3 DEF OverStays, ContainerOnly
<1>5. account'.lora = account.lora
  BY DEF Run, Trained, Generate, Generated, NeverRuns, TrainingFails, GenerationFails, Dies,
         FailJob, Inv, RowsOK, Account
<1>6. \A j \in Jobs : job'[j] = "waiting_lora" => job[j] = "waiting_lora"
  BY DEF Run, Trained, Generate, Generated, NeverRuns, TrainingFails, GenerationFails, Dies,
         FailJob, Write, Inv, RowsOK
<1>7. AwaitSame /\ NoUnclaim' /\ UNCHANGED <<training, watch>>
  BY <1>1, <1>5, <1>6 DEF AwaitSame, ContainerOnly, SomeRun, Awaited, NoUnclaim
<1> QED
  BY <1>4, <1>7, WatchStays, StillAwaited

\* One run's row changes: it stays in flight, or was not; what is over stays over.
LEMMA OneRowOver ==
  ASSUME Inv, UNCHANGED execs, NEW t \in Trainings, NEW row,
         training' = [training EXCEPT ![t] = row],
         training[t].status \in InFlight => row.status \in InFlight,
         training[t].status = "failed" => row.status = "failed",
         training[t].exec # None => row.exec = training[t].exec
  PROVE  /\ SomeRun => SomeRun'
         /\ \A s \in Trainings : training[s].exec # None => training'[s].exec = training[s].exec
         /\ \A s \in Trainings : training[s].status = "failed" => training'[s].status = "failed"
BY NewRow DEF SomeRun

LEMMA WorkerAwaited ==
  ASSUME {"startFails", "badFiles", "replyLost"} \cap Faults = {},
         Inv, Awaited, NEW w \in Workers,
         \/ \E t \in Trainings : Receive(w, t)
         \/ Work(w) \/ Defer(w) \/ GiveUp(w) \/ Reject(w) \/ WorkerDies(w)
  PROVE  Awaited'
<1>1. ~Unclaim(w) /\ ~Revert(w) /\ ~Reject(w) /\ ~StartRaises(w)
  BY DEF Unclaim, Revert, Reject, StartRaises, At, Awaited, NoUnclaim
<1>2. Resting.pc = "idle"
  BY DEF Resting
<1>3. CASE GiveUp(w)
  <2>1. PICK t \in Trainings : t = Of(w)
    BY <1>3 DEF GiveUp, Inv, HasRun, At
  <2>2. NoUnclaim'
    BY <1>2, <1>3, WorkersStay DEF GiveUp, Rest
  <2> QED
    BY <1>3, <2>1, <2>2, FinishAwaited DEF GiveUp
<1>4. CASE (\E t \in Trainings : Receive(w, t)) \/ Discard(w) \/ Defer(w) \/ WorkerDies(w)
  <2>1. UNCHANGED <<account, job, training, execs, watch, doomed>>
    BY <1>4 DEF Receive, Discard, Defer, WorkerDies
  <2>2. NoUnclaim'
    <3>1. CASE \E t \in Trainings : Receive(w, t)
      <4>1. PICK t \in Trainings :
              worker' = [worker EXCEPT ![w] = [Resting EXCEPT !.pc = "held", !.of = t]]
        BY <3>1 DEF Receive
      <4> DEFINE hand == [Resting EXCEPT !.pc = "held", !.of = t]
      <4>2. hand.pc = "held" /\ worker' = [worker EXCEPT ![w] = hand]
        BY <4>1 DEF Resting
      <4> HIDE DEF hand
      <4> QED
        BY <4>2, WorkersStay
    <3>2. CASE Discard(w) \/ Defer(w) \/ WorkerDies(w)
      BY <1>2, <3>2, WorkersStay DEF Discard, Defer, WorkerDies, Return, Rest
    <3> QED
      BY <1>4, <3>1, <3>2
  <2> QED
    BY <2>1, <2>2, QuietAwaited
<1>5. ASSUME NEW pc \in {"fuse", "start", "record"}, NEW j, NEW e,
             \/ worker' = [worker EXCEPT ![w].pc = pc]
             \/ worker' = [worker EXCEPT ![w].pc = pc, ![w].fused = j]
             \/ worker' = [worker EXCEPT ![w].pc = pc, ![w].exec = e]
      PROVE  NoUnclaim'
  BY <1>5 DEF NoUnclaim, Awaited, Inv, WorkersOK, Hand
<1>6. CASE FuseAgain(w) \/ TrainOnly(w)
  <2>1. UNCHANGED <<account, training, execs, watch, doomed>>
    BY <1>6 DEF FuseAgain, TrainOnly
  <2>2. NoUnclaim'
    BY <1>5, <1>6 DEF FuseAgain, TrainOnly, Bind
  <2>3. \A j \in Jobs : job'[j] = "waiting_lora" => job[j] = "waiting_lora"
    BY <1>6 DEF FuseAgain, TrainOnly, Inv, RowsOK
  <2> QED
    BY <2>1, <2>2, <2>3, QuietAwaited
<1>7. CASE Start(w)
  <2>1. UNCHANGED <<account, job, training, watch, doomed>> /\ Launch(w)
    BY <1>7 DEF Start
  <2>2. NoUnclaim'
    BY <1>5, <1>7 DEF Start
  <2> DEFINE new == [of |-> Of(w), fused |-> worker[w].fused, phase |-> "training"]
  <2>3. execs \in Seq(Execution) /\ execs' = Append(execs, new)
    BY <2>1 DEF Launch, Inv, ContainersOK
  <2> HIDE DEF new
  <2>4. \A e \in ExecIds : e \in ExecIds' /\ execs'[e] = execs[e]
    BY <2>3 DEF ExecIds
  <2>5. OverStays /\ AwaitSame
    BY <2>1, <2>4 DEF OverStays, AwaitSame, SomeRun
  <2> QED
    BY <2>1, <2>2, <2>5, WatchStays, StillAwaited
<1>8. CASE Claim(w) \/ FuseNew(w) \/ Record(w)
  <2>1. PICK t \in Trainings : t = Of(w)
    BY <1>8 DEF Claim, FuseNew, Record, Inv, HasRun, At
  <2>2. training[t] \in Row /\ UNCHANGED <<account, execs, watch, doomed>>
    BY <1>8 DEF Claim, FuseNew, Record, Inv, RowsOK
  <2>3. \A j \in Jobs : job'[j] = "waiting_lora" => job[j] = "waiting_lora"
    BY <1>8 DEF Claim, FuseNew, Record, Inv, RowsOK
  <2>4. ASSUME NEW row, training' = [training EXCEPT ![t] = row],
               training[t].status \in InFlight => row.status \in InFlight,
               training[t].status = "failed" => row.status = "failed",
               training[t].exec # None => row.exec = training[t].exec,
               training[t].status = "failed" => row.exec = training[t].exec,
               NoUnclaim'
        PROVE  Awaited'
    <3>1. /\ SomeRun => SomeRun'
          /\ \A s \in Trainings : training[s].exec # None => training'[s].exec = training[s].exec
      BY <2>2, <2>4, OneRowOver
    <3>2. OverStays
      BY <2>2, <2>4, NewRow DEF OverStays, ExecIds
    <3>3. AwaitSame
      BY <2>2, <2>3, <3>1 DEF AwaitSame
    <3> QED
      BY <2>2, <2>4, <3>1, <3>2, <3>3, WatchStays, StillAwaited
  <2>5. CASE Claim(w)
    <3> DEFINE row == [training[t] EXCEPT !.status = "dispatching"]
    <3>1. /\ training[t].status = "queued" /\ row.status = "dispatching"
          /\ row.exec = training[t].exec /\ training' = [training EXCEPT ![t] = row]
      BY <2>1, <2>2, <2>5 DEF Claim, Row
    <3> HIDE DEF row
    <3>2. NoUnclaim'
      BY <1>5, <2>5 DEF Claim, Go
    <3> QED
      BY <2>4, <3>1, <3>2 DEF InFlight
  <2>6. CASE FuseNew(w)
    <3>1. PICK j : training' = [training EXCEPT ![t].fused = j] /\ Bind(w, j)
      BY <2>1, <2>6 DEF FuseNew
    <3> DEFINE row == [training[t] EXCEPT !.fused = j]
    <3>2. row.status = training[t].status /\ row.exec = training[t].exec
          /\ training' = [training EXCEPT ![t] = row]
      BY <2>2, <3>1 DEF Row
    <3> HIDE DEF row
    <3>3. NoUnclaim'
      BY <1>5, <3>1 DEF Bind
    <3> QED
      BY <2>4, <3>2, <3>3
  <2>7. CASE Record(w)
    <3> DEFINE row == IF training[t].status = "dispatching" /\ training[t].exec = None
                      THEN [training[t] EXCEPT !.status = "training", !.exec = worker[w].exec]
                      ELSE training[t]
    <3>1. /\ training' = [training EXCEPT ![t] = row]
          /\ \/ row = training[t]
             \/ /\ training[t].status = "dispatching" /\ training[t].exec = None
                /\ row.status = "training"
      BY <2>1, <2>2, <2>7 DEF Record, Row
    <3> HIDE DEF row
    <3>2. NoUnclaim'
      BY <1>2, <2>7, WorkersStay DEF Record, Rest
    <3> QED
      BY <2>4, <3>1, <3>2 DEF InFlight
  <2> QED
    BY <1>8, <2>5, <2>6, <2>7
<1> QED
  BY <1>1, <1>3, <1>4, <1>6, <1>7, <1>8 DEF Work

\* The watcher looks: an execution that never ran is over, and stays so.
LEMMA LookAwaited ==
  ASSUME Inv, Awaited, NEW t \in Trainings, Look(t) \/ Age(t)
  PROVE  Awaited'
<1>1. UNCHANGED <<account, job, training, execs, worker, doomed>>
  BY DEF Look, Age, WatcherOnly
<1>2. NoUnclaim'
  BY <1>1 DEF Awaited, NoUnclaim
<1>3. WatchOK'
  <2>1. CASE Age(t)
    BY <2>1 DEF Age, Sees, WatchOK
  <2>2. CASE Look(t)
    <3>1. PICK v \in Verdicts(execs[training[t].exec].phase) : Sees(t, v)
      BY <2>2 DEF Look
    <3>2. v \in {"ok", "failed", "neverRan"}
          /\ (v = "neverRan" => execs[training[t].exec].phase = "neverRan")
      BY <3>1 DEF Verdicts
    <3> QED
      BY <1>1, <3>1, <3>2 DEF Sees, WatchOK
  <2> QED
    BY <2>1, <2>2
<1> QED
  BY <1>1, <1>2, <1>3, QuietAwaited

LEMMA WatchAwaited ==
  ASSUME Inv, Awaited, Watch \/ WatcherDies
  PROVE  Awaited'
<1>1. UNCHANGED <<execs, worker>> /\ NoUnclaim'
  BY DEF Watch, WatcherDies, Conclude, Retry, AlreadyHandled, NoRetry, Exhaust,
         ConcludeExhausted, WatcherOnly, Awaited, NoUnclaim
<1>2. Done => watch'.verdict = "none" /\ WatchOK'
  BY DEF Done, NoWatch, WatchOK
<1>3. CASE Conclude
  <2>1. watch.of \in Trainings /\ (watch.verdict = "ok") \in BOOLEAN
    BY <1>3 DEF Conclude, Inv, HasRun
  <2> QED
    BY <1>1, <1>2, <1>3, <2>1, FinishAwaited DEF Conclude
<1>4. CASE ConcludeExhausted
  BY <1>4, ExhaustedAwaited
<1>5. CASE AlreadyHandled \/ WatcherDies
  BY <1>1, <1>2, <1>5, QuietAwaited DEF AlreadyHandled, WatcherDies
<1>6. CASE NoRetry
  <2>1. watch' = [watch EXCEPT !.verdict = "spent"] /\ watch \in Sight
    BY <1>6 DEF NoRetry, Inv, WatcherOK
  <2>2. watch'.of = watch.of /\ watch'.exec = watch.exec /\ watch'.verdict = "spent"
    BY <2>1 DEF Sight
  <2>3. WatchOK'
    BY <1>1, <1>6, <2>2 DEF NoRetry, Current, Awaited, WatchOK
  <2> QED
    BY <1>1, <1>6, <2>3, QuietAwaited DEF NoRetry
<1>7. CASE Retry
  <2>1. PICK t \in Trainings : t = watch.of
    BY <1>7 DEF Retry, Inv, HasRun
  <2> DEFINE row == [training[t] EXCEPT !.status = "queued", !.exec = None,
                                        !.history = @ \cup {watch.exec}]
  <2>2. row.status = "queued" /\ training[t].status # "failed"
    <3>1. training[t] \in Row
      BY DEF Inv, RowsOK
    <3> QED
      BY <1>7, <2>1, <3>1 DEF Retry, Row, InFlight
  <2>3. training' = [training EXCEPT ![t] = row]
    BY <1>7, <2>1 DEF Retry
  <2> HIDE DEF row
  <2>4. training'[t].status = "queued" /\ \A s \in Trainings \ {t} : training'[s] = training[s]
    BY <2>2, <2>3, NewRow
  <2>5. SomeRun' /\ OverStays
    BY <1>1, <2>2, <2>4 DEF SomeRun, InFlight, OverStays, ExecIds
  <2> QED
    BY <1>1, <1>2, <1>7, <2>5 DEF Retry, Awaited, ParkedOK
<1>8. CASE Exhaust
  <2>1. PICK t \in Trainings : t = watch.of
    BY <1>8 DEF Exhaust, Inv, HasRun
  <2> DEFINE row == [training[t] EXCEPT !.history = @ \cup {watch.exec}]
  <2>2. row.status = training[t].status /\ row.exec = training[t].exec
    <3>1. training[t] \in Row
      BY DEF Inv, RowsOK
    <3> QED
      BY <3>1 DEF Row
  <2>3. training' = training \/ training' = [training EXCEPT ![t] = row]
    BY <1>8, <2>1 DEF Exhaust
  <2> HIDE DEF row
  <2>4. \A s \in Trainings : training'[s].status = training[s].status
                             /\ training'[s].exec = training[s].exec
    BY <2>2, <2>3, NewRow
  <2>5. account'.lora = account.lora /\ UNCHANGED doomed
    BY <1>8 DEF Exhaust, FailJob, Inv, RowsOK, Account
  <2>6. \A j \in Jobs : job'[j] = "waiting_lora" => job[j] = "waiting_lora"
    BY <1>8 DEF Exhaust, FailJob, Inv, RowsOK
  <2>7. OverStays /\ AwaitSame
    BY <1>1, <2>4, <2>5, <2>6 DEF OverStays, ExecIds, AwaitSame, SomeRun
  <2>8. watch' = [watch EXCEPT !.verdict = "exhausted"] /\ watch \in Sight
    BY <1>8 DEF Exhaust, Inv, WatcherOK
  <2>9. watch'.of = watch.of /\ watch'.exec = watch.exec /\ watch'.verdict = "exhausted"
    BY <2>8 DEF Sight
  <2>10. WatchOK'
    BY <1>1, <1>8, <2>1, <2>4, <2>9 DEF Exhaust, Awaited, WatchOK
  <2> QED
    BY <1>1, <2>7, <2>10, StillAwaited
<1> QED
  BY <1>3, <1>4, <1>5, <1>6, <1>7, <1>8 DEF Watch

LEMMA NextAwaited ==
  ASSUME {"startFails", "badFiles", "replyLost", "sweepFails"} \cap Faults = {},
         Inv, Awaited, [Next]_vars
  PROVE  Awaited'
<1>1. ASSUME NEW j \in Jobs,
             Submit(j) \/ FailParked(j) \/ SkipParked(j) \/ Serve(j) \/ Infer(j) \/ Reap(j)
      PROVE  Awaited'
  BY <1>1, SubmitAwaited, JobsAwaited DEF SkipParked
<1>2. ASSUME NEW t \in Trainings,
             \/ Poison(t) \/ Look(t) \/ Age(t)
             \/ \E force \in BOOLEAN : StartTraining(t, force)
      PROVE  Awaited'
  <2>1. CASE Poison(t)
    <3>1. NoUnclaim'
      BY <2>1 DEF Poison, Awaited, NoUnclaim
    <3> QED
      BY <2>1, <3>1, FinishAwaited DEF Poison
  <2> QED
    BY <1>2, <2>1, LookAwaited, StartTrainingAwaited
<1>3. CASE DeleteAdapter \/ ResetModel \/ Retire
  BY <1>3, ModelAwaited
<1>4. ASSUME NEW i \in Items, Deliver(i) \/ DeliverTwice(i)
      PROVE  Awaited'
  BY <1>4, OutboxAwaited
<1>5. ASSUME NEW w \in Workers,
             \/ \E t \in Trainings : Receive(w, t)
             \/ Work(w) \/ Defer(w) \/ GiveUp(w) \/ Reject(w) \/ WorkerDies(w)
      PROVE  Awaited'
  BY <1>5, WorkerAwaited
<1>6. ASSUME NEW e \in ExecIds,
             Run(e) \/ NeverRuns(e) \/ TrainingFails(e) \/ GenerationFails(e) \/ Dies(e)
      PROVE  Awaited'
  BY <1>6, ContainerAwaited
<1>7. CASE Watch \/ WatcherDies
  BY <1>7, WatchAwaited
<1>8. CASE UNCHANGED vars
  BY <1>8, QuietAwaited DEF vars, Awaited, NoUnclaim
<1> QED
  BY <1>1, <1>2, <1>3, <1>4, <1>5, <1>6, <1>7, <1>8 DEF Next

\* If the start call does not raise and the sweep of doomed jobs does not skip one, a paid
\* job is parked only while a run is in flight, while it is being failed, or behind an
\* exhausted run, whatever else fails, dies, comes twice or is deleted.
THEOREM NobodyParksForNothing ==
  ASSUME {"startFails", "badFiles", "replyLost", "sweepFails"} \cap Faults = {}
  PROVE  Spec => []ParkedIsAwaited
<1>1. Inv /\ Awaited => ParkedIsAwaited
  BY DEF Awaited, ParkedOK, Parked, SomeRun, ParkedIsAwaited
<1>2. Init => Inv /\ Awaited
  <2>1. Init => Awaited
    BY DEF Init, Awaited, NoUnclaim, Resting, WatchOK, NoWatch, ParkedOK, Parked, InStatus
  <2> QED
    BY <2>1, InitInv
<1>3. Inv /\ Awaited /\ [Next]_vars => (Inv /\ Awaited)'
  BY NextInv, NextAwaited
<1> QED
  BY <1>1, <1>2, <1>3, PTL DEF Spec

-----------------------------------------------------------------------------
(* One generation of a job at a time. Without the faults named in Sober    *)
(* one run is in flight at a time, a run is dispatched by one worker, has  *)
(* one live container, and is retried or ended only when that container    *)
(* is over; and the job it is fused with is nobody else's to generate.     *)

Sober == {"stuck", "replyLost", "reset", "retention", "giveUp", "poison"} \cap Faults = {}

InFlightRun(t) == training[t].status \in InFlight

OneRun ==
  /\ poisoned = {}
  /\ \A t \in Trainings : InFlightRun(t) => account.lora = "training"
  /\ \A s, t \in Trainings : InFlightRun(s) /\ InFlightRun(t) => s = t

\* A worker has claimed its run.
Busy(w) == worker[w].pc \in {"fuse", "start", "unclaim", "revert", "record"}

OneWorker ==
  /\ \A w \in Workers : Busy(w) => training[Of(w)].status = "dispatching"
                                   /\ training[Of(w)].exec = None
  /\ \A v, w \in Workers : Busy(v) /\ Busy(w) /\ Of(v) = Of(w) => v = w

\* A live container is its run's execution, or is still to be recorded.
Backed(e) ==
  LET row == training[execs[e].of] IN
    \/ row.status = "training" /\ row.exec = e
    \/ row.status = "dispatching" /\ row.exec = None

OneContainer ==
  /\ \A e \in ExecIds : Live(e) => Backed(e)
  /\ \A e, f \in ExecIds : Live(e) /\ Live(f) /\ execs[e].of = execs[f].of => e = f
  /\ \A w \in Workers, e \in ExecIds :
       Busy(w) /\ Live(e) /\ execs[e].of = Of(w) => At(w, "record") /\ worker[w].exec = e

\* What the watcher concludes from is the run's execution, and is over.
WatchesTheDead ==
  watch.verdict # "none" =>
    watch.exec \in ExecIds /\ ~Live(watch.exec) /\ training[watch.of].exec = watch.exec

Attempts == OneWorker /\ OneContainer /\ WatchesTheDead

\* A worker has settled which job its run is fused with.
Pledged(w) == worker[w].pc \in {"start", "unclaim", "revert", "record"}

Linkage ==
  /\ \A w \in Workers : Pledged(w) /\ worker[w].fused # None =>
       training[Of(w)].fused = worker[w].fused
  /\ \A e \in ExecIds : execs[e].fused # None =>
       training[execs[e].of].fused = execs[e].fused
  /\ \A s, t \in Trainings : training[s].fused # None /\ training[s].fused = training[t].fused
                               => s = t
  /\ \A t \in Trainings : training[t].fused # None =>
       training[t].status # "absent" /\ job[training[t].fused] # "absent"

Apart ==
  /\ \A j \in inferring : job[j] \in {"processing"} \cup JobTerminal
  /\ \A t \in Trainings : InFlightRun(t) /\ training[t].fused # None =>
       training[t].fused \notin inferring /\ job[training[t].fused] # "queued"

OneEach == OneRun /\ Attempts /\ Linkage /\ Apart

\* Nobody dispatches a run and nothing of it is alive.
Idle(t) ==
  /\ \A w \in Workers : Busy(w) => Of(w) # t
  /\ \A e \in ExecIds : Live(e) => execs[e].of # t

-----------------------------------------------------------------------------
(* What a step must keep.                                                  *)

RunsStay ==
  /\ account'.lora = account.lora /\ poisoned' = poisoned
  /\ \A t \in Trainings : InFlightRun(t)' => InFlightRun(t)

LEMMA OneRunStays ==
  ASSUME OneRun, RunsStay PROVE OneRun'
BY DEF OneRun, RunsStay

\* No new claim, no new container, no new sight.
AttemptsStay ==
  /\ \A t \in Trainings : \/ Idle(t)'
                          \/ /\ training'[t].status = training[t].status
                             /\ training'[t].exec = training[t].exec
  /\ \A w \in Workers : Busy(w)' => Busy(w) /\ worker'[w].of = worker[w].of
       /\ (At(w, "record") => At(w, "record")' /\ worker'[w].exec = worker[w].exec)
  /\ \A e \in ExecIds' : Live(e)' => e \in ExecIds /\ Live(e) /\ execs'[e].of = execs[e].of
  /\ \A e \in ExecIds : ~Live(e) => e \in ExecIds' /\ ~Live(e)'
  /\ watch'.verdict # "none" =>
       /\ watch.verdict # "none" /\ watch'.of = watch.of /\ watch'.exec = watch.exec
       /\ training'[watch.of].exec = training[watch.of].exec

LEMMA BusyHasRun ==
  ASSUME Inv, NEW w \in Workers, Busy(w) PROVE Of(w) \in Trainings
BY DEF Inv, HasRun, Busy, At

LEMMA ExecHasRun ==
  ASSUME Inv, NEW e \in ExecIds
  PROVE  execs[e].of \in Trainings /\ execs[e].fused \in Jobs \cup {None}
<1>1. execs[e] \in Execution
  BY DEF Inv, ContainersOK, ExecIds
<1> QED
  BY <1>1 DEF Execution

LEMMA AttemptsKept ==
  ASSUME Inv, Attempts, AttemptsStay PROVE Attempts'
<1>1. OneWorker'
  <2>1. ASSUME NEW w \in Workers, Busy(w)'
        PROVE  training'[worker'[w].of].status = "dispatching"
               /\ training'[worker'[w].of].exec = None
    <3>1. PICK t \in Trainings : t = Of(w)
      BY <2>1, BusyHasRun DEF AttemptsStay
    <3>2. Busy(w) /\ worker'[w].of = t /\ ~Idle(t)'
      BY <2>1, <3>1 DEF AttemptsStay, Idle, Of
    <3> QED
      BY <3>1, <3>2 DEF AttemptsStay, Attempts, OneWorker
  <2>2. ASSUME NEW v \in Workers, NEW w \in Workers, Busy(v)', Busy(w)', worker'[v].of = worker'[w].of
        PROVE  v = w
    BY <2>2 DEF AttemptsStay, Attempts, OneWorker, Of
  <2> QED
    BY <2>1, <2>2 DEF OneWorker, Of
<1>2. OneContainer'
  <2>1. ASSUME NEW e \in ExecIds', Live(e)' PROVE Backed(e)'
    <3>1. e \in ExecIds /\ Live(e) /\ execs'[e].of = execs[e].of
      BY <2>1 DEF AttemptsStay
    <3>2. PICK t \in Trainings : t = execs[e].of
      BY <3>1, ExecHasRun
    <3>3. ~Idle(t)'
      BY <2>1, <3>1, <3>2 DEF Idle
    <3>4. training'[t].status = training[t].status /\ training'[t].exec = training[t].exec
      BY <3>3 DEF AttemptsStay
    <3> QED
      BY <3>1, <3>2, <3>4 DEF Attempts, OneContainer, Backed
  <2>2. ASSUME NEW e \in ExecIds', NEW f \in ExecIds', Live(e)', Live(f)', execs'[e].of = execs'[f].of
        PROVE  e = f
    BY <2>2 DEF AttemptsStay, Attempts, OneContainer
  <2>3. ASSUME NEW w \in Workers, NEW e \in ExecIds', Busy(w)', Live(e)', execs'[e].of = worker'[w].of
        PROVE  At(w, "record")' /\ worker'[w].exec = e
    BY <2>3 DEF AttemptsStay, Attempts, OneContainer, Of
  <2> QED
    BY <2>1, <2>2, <2>3 DEF OneContainer, Of
<1>3. WatchesTheDead'
  BY DEF AttemptsStay, Attempts, WatchesTheDead
<1> QED
  BY <1>1, <1>2, <1>3 DEF Attempts

\* No new link.
LinksStay ==
  /\ \A t \in Trainings : /\ training'[t].fused = training[t].fused
                          /\ training'[t].status = "absent" => training[t].status = "absent"
  /\ \A w \in Workers : Pledged(w)' /\ worker'[w].fused # None =>
       \/ Pledged(w) /\ worker'[w].of = worker[w].of /\ worker'[w].fused = worker[w].fused
       \/ /\ worker'[w].of \in Trainings
          /\ training[worker'[w].of].fused = worker'[w].fused
  /\ \A e \in ExecIds' : execs'[e].fused # None =>
       \/ e \in ExecIds /\ execs'[e].of = execs[e].of /\ execs'[e].fused = execs[e].fused
       \/ /\ execs'[e].of \in Trainings
          /\ training[execs'[e].of].fused = execs'[e].fused
  /\ \A j \in Jobs : job'[j] = "absent" => job[j] = "absent"

LEMMA LinkageKept ==
  ASSUME Inv, Linkage, LinksStay PROVE Linkage'
<1>1. \A t \in Trainings : training[t].fused \in Jobs \cup {None}
  BY DEF Inv, RowsOK, Row
<1>2. ASSUME NEW w \in Workers, Pledged(w)', worker'[w].fused # None
      PROVE  training'[worker'[w].of].fused = worker'[w].fused
  BY <1>2, BusyHasRun DEF LinksStay, Linkage, Of, Pledged, Busy
<1>3. ASSUME NEW e \in ExecIds', execs'[e].fused # None
      PROVE  training'[execs'[e].of].fused = execs'[e].fused
  BY <1>3, ExecHasRun DEF LinksStay, Linkage
<1>4. ASSUME NEW s \in Trainings, NEW t \in Trainings, training'[s].fused # None,
             training'[s].fused = training'[t].fused
      PROVE  s = t
  BY <1>4 DEF LinksStay, Linkage
<1>5. ASSUME NEW t \in Trainings, training'[t].fused # None
      PROVE  training'[t].status # "absent" /\ job'[training'[t].fused] # "absent"
  BY <1>1, <1>5 DEF LinksStay, Linkage
<1> QED
  BY <1>2, <1>3, <1>4, <1>5 DEF Linkage, Of

\* No new inference, no run more in flight, no job queued.
ApartStays ==
  /\ inferring' \subseteq inferring
  /\ \A j \in inferring' : job'[j] \in {"processing"} \cup JobTerminal
  /\ \A t \in Trainings : /\ InFlightRun(t)' => InFlightRun(t)
                          /\ training'[t].fused = training[t].fused
  /\ \A j \in Jobs : job'[j] = "queued" => job[j] = "queued"

LEMMA ApartKept ==
  ASSUME Inv, Apart, ApartStays PROVE Apart'
<1>1. \A t \in Trainings : training[t].fused \in Jobs \cup {None}
  BY DEF Inv, RowsOK, Row
<1>2. ASSUME NEW t \in Trainings, InFlightRun(t)', training'[t].fused # None
      PROVE  training'[t].fused \notin inferring' /\ job'[training'[t].fused] # "queued"
  BY <1>1, <1>2 DEF Apart, ApartStays
<1> QED
  BY <1>2 DEF Apart, ApartStays

\* Two containers of one job would be two of one run.
LEMMA OneEachSuffices ==
  ASSUME Inv, OneEach PROVE OneGeneration
<1> SUFFICES ASSUME NEW j \in Jobs
             PROVE  Cardinality({e \in ExecIds : Live(e) /\ execs[e].fused = j})
                      + (IF j \in inferring THEN 1 ELSE 0) <= 1
  BY DEF OneGeneration
<1> DEFINE mine == {e \in ExecIds : Live(e) /\ execs[e].fused = j}
<1>1. j # None
  OBVIOUS
<1>2. \A e \in mine : /\ execs[e].of \in Trainings /\ training[execs[e].of].fused = j
                      /\ InFlightRun(execs[e].of)
  BY <1>1, ExecHasRun DEF OneEach, Linkage, Attempts, OneContainer, Backed, InFlightRun, InFlight
<1>3. \A e, f \in mine : e = f
  BY <1>1, <1>2 DEF OneEach, Linkage, Attempts, OneContainer
<1>4. mine # {} => j \notin inferring
  BY <1>1, <1>2 DEF OneEach, Apart
<1>5. CASE mine = {}
  <2>1. Cardinality(mine) = 0
    BY <1>5, FS_EmptySet
  <2> HIDE DEF mine
  <2> QED
    BY <2>1 DEF mine
<1>6. CASE mine # {}
  <2>1. PICK e : mine = {e}
    BY <1>3, <1>6
  <2>2. Cardinality(mine) = 1 /\ j \notin inferring
    BY <1>4, <1>6, <2>1, FS_Singleton
  <2> HIDE DEF mine
  <2> QED
    BY <2>2 DEF mine
<1> QED
  BY <1>5, <1>6

LEMMA InitOneEach == Init => OneEach
<1> SUFFICES ASSUME Init PROVE OneEach
  OBVIOUS
<1>1. ExecIds = {}
  BY DEF Init, ExecIds
<1>2. OneRun /\ Apart
  BY DEF Init, OneRun, Apart, InFlightRun, InFlight, NoRow
<1>3. Attempts
  BY <1>1 DEF Init, Attempts, OneWorker, OneContainer, WatchesTheDead, Busy, Resting, NoWatch
<1>4. Linkage
  BY <1>1 DEF Init, Linkage, Pledged, Resting, NoRow
<1> QED
  BY <1>2, <1>3, <1>4 DEF OneEach

-----------------------------------------------------------------------------
(* The steps, one group at a time.                                         *)

LEMMA AllKept ==
  ASSUME Inv, OneEach, RunsStay, AttemptsStay, LinksStay, ApartStays PROVE OneEach'
BY OneRunStays, AttemptsKept, LinkageKept, ApartKept DEF OneEach

\* The workers, the containers and the watcher are left alone.
LEMMA Bystanders ==
  ASSUME Inv, OneEach, UNCHANGED <<training, worker, execs, watch>>,
         \A j \in Jobs : job'[j] = "absent" => job[j] = "absent"
  PROVE  AttemptsStay /\ LinksStay
<1>1. ExecIds' = ExecIds
  BY DEF ExecIds
<1>2. AttemptsStay
  BY <1>1 DEF AttemptsStay, Busy, At, Live
<1>3. LinksStay
  BY <1>1 DEF LinksStay, Pledged
<1> QED
  BY <1>2, <1>3

LEMMA SubmitOneEach ==
  ASSUME Inv, OneEach, NEW j \in Jobs, Submit(j)
  PROVE  OneEach'
<1>1. /\ UNCHANGED <<training, worker, execs, watch, inferring, poisoned>>
      /\ account'.lora = account.lora /\ job[j] = "absent" /\ job'[j] # "absent"
      /\ \A i \in Jobs \ {j} : job'[i] = job[i]
  BY DEF Submit, Inv, RowsOK, Account
<1>2. RunsStay /\ AttemptsStay /\ LinksStay
  BY <1>1, Bystanders DEF RunsStay, InFlightRun
<1>3. Apart'
  <2>1. j \notin inferring
    BY <1>1 DEF OneEach, Apart, JobTerminal
  <2>2. \A t \in Trainings : training[t].fused # None =>
          training[t].fused \in Jobs \ {j}
    BY <1>1 DEF OneEach, Linkage, Inv, RowsOK, Row
  <2>3. inferring \subseteq Jobs
    BY DEF Inv, ContainersOK
  <2> QED
    BY <1>1, <2>1, <2>2, <2>3 DEF OneEach, Apart, InFlightRun
<1> QED
  BY <1>2, <1>3, OneRunStays, AttemptsKept, LinkageKept DEF OneEach

\* A run that waits for its start or has ended is idle.
LEMMA NotStartedIsIdle ==
  ASSUME Inv, OneEach, NEW t \in Trainings, training[t].status \in {"absent", "queued"}
  PROVE  Idle(t)
BY DEF OneEach, Attempts, OneWorker, OneContainer, Backed, Idle

LEMMA StartTrainingOneEach ==
  ASSUME Inv, OneEach, NEW t \in Trainings, NEW force \in BOOLEAN, StartTraining(t, force)
  PROVE  OneEach'
<1>1. PICK charge : training' = [training EXCEPT ![t].status = "queued", ![t].charge = charge]
  BY DEF StartTraining
<1> DEFINE row == [training[t] EXCEPT !.status = "queued", !.charge = charge]
<1>2. /\ row.status = "queued" /\ row.exec = training[t].exec /\ row.fused = training[t].fused
      /\ training[t].status = "absent" /\ training[t].fused = None
  <2>1. training[t] \in Row
    BY DEF Inv, RowsOK
  <2>2. training[t].status = "absent"
    BY DEF StartTraining
  <2> QED
    BY <2>1, <2>2 DEF Row, OneEach, Linkage
<1>3. training' = [training EXCEPT ![t] = row]
  BY <1>1
<1> HIDE DEF row
<1>4. training'[t] = row /\ \A s \in Trainings \ {t} : training'[s] = training[s]
  BY <1>3, NewRow
<1>5. /\ UNCHANGED <<job, execs, worker, watch, inferring, poisoned>>
      /\ account'.lora = "training" /\ account.lora # "training"
  BY DEF StartTraining, Inv, RowsOK, Account
<1>6. \A s \in Trainings : ~InFlightRun(s)
  BY <1>5 DEF OneEach, OneRun
<1>7. OneRun'
  BY <1>4, <1>5, <1>6 DEF OneEach, OneRun, InFlightRun
<1>8. ExecIds' = ExecIds /\ Idle(t)'
  BY <1>2, <1>5, NotStartedIsIdle DEF ExecIds, Idle, Busy, Live, Of
<1>9. AttemptsStay
  BY <1>2, <1>4, <1>5, <1>8 DEF AttemptsStay, Busy, At, Live, Inv, HasRun
<1>10. LinksStay
  BY <1>2, <1>4, <1>5, <1>8 DEF LinksStay, Pledged
<1>11. Apart'
  BY <1>2, <1>4, <1>5, <1>6 DEF OneEach, Apart, InFlightRun
<1> QED
  BY <1>7, <1>9, <1>10, <1>11, AttemptsKept, LinkageKept DEF OneEach

\* The end of a run nobody dispatches and of which nothing is alive.
LEMMA FinishOneEach ==
  ASSUME Inv, OneEach, NEW t \in Trainings, training[t].status # "absent",
         \/ \E ok \in BOOLEAN : Finish(t, ok)
         \/ \E lora \in {"ready", "failed"} : FinishUnswept(t, lora),
         Idle(t)', UNCHANGED <<execs, inferring, poisoned>>,
         \A w \in Workers : worker'[w] = worker[w] \/ worker'[w] = Resting,
         UNCHANGED watch \/ watch'.verdict = "none"
  PROVE  OneEach'
<1>1. ExecIds' = ExecIds
  BY DEF ExecIds
<1>2. \A w \in Workers : Busy(w)' => worker'[w] = worker[w]
  BY DEF Busy, Resting
<1>3. ASSUME \A s \in Trainings : training'[s].exec = training[s].exec,
             \A s \in Trainings \ {t} : training'[s].status = training[s].status
      PROVE  AttemptsStay
  <2>1. watch'.verdict # "none" => watch.of \in Trainings
    BY DEF Inv, HasRun
  <2>2. \A w \in Workers : At(w, "record") /\ Busy(w)' => At(w, "record")' /\ worker'[w].exec = worker[w].exec
    BY <1>2 DEF At
  <2> QED
    BY <1>1, <1>2, <1>3, <2>1, <2>2 DEF AttemptsStay, Busy, Live
<1>4. ASSUME \A s \in Trainings : training'[s].fused = training[s].fused,
             \A s \in Trainings : training'[s].status = "absent" => training[s].status = "absent",
             \A j \in Jobs : job'[j] = "absent" => job[j] = "absent"
      PROVE  LinksStay
  <2>1. \A w \in Workers : Pledged(w)' => worker'[w] = worker[w] /\ Pledged(w)
    BY DEF Pledged, Resting
  <2> QED
    BY <1>1, <1>4, <2>1 DEF LinksStay
<1>5. CASE training[t].status \in {"completed", "failed"}
  <2>1. UNCHANGED <<account, job, training, owed, doomed>>
    BY <1>5 DEF Finish, FinishUnswept
  <2>2. RunsStay /\ ApartStays
    BY <2>1 DEF RunsStay, ApartStays, InFlightRun, OneEach, Apart
  <2>3. AttemptsStay /\ LinksStay
    BY <1>3, <1>4, <2>1
  <2> QED
    BY <2>2, <2>3, AllKept
<1>6. CASE training[t].status \notin {"completed", "failed"}
  <2>1. PICK ok \in BOOLEAN, lora \in {"ready", "failed"}, usable \in BOOLEAN,
             parked \in SUBSET Parked : Settle(t, ok, lora, usable, parked)
    <3>1. CASE \E ok \in BOOLEAN : Finish(t, ok)
      <4>1. PICK ok \in BOOLEAN, found \in BOOLEAN :
              Settle(t, ok, IF ok \/ found THEN "ready" ELSE "failed", ok \/ found, Parked)
        BY <1>6, <3>1 DEF Finish, Parked, Probe, Inv, RowsOK, Account
      <4> DEFINE lora == IF ok \/ found THEN "ready" ELSE "failed"
                 usable == ok \/ found
      <4>2. /\ lora \in {"ready", "failed"} /\ usable \in BOOLEAN
            /\ Parked \in SUBSET Parked /\ Settle(t, ok, lora, usable, Parked)
        BY <4>1
      <4> HIDE DEF lora, usable
      <4> QED
        BY <4>2
    <3>2. CASE \E lora \in {"ready", "failed"} : FinishUnswept(t, lora)
      <4>1. PICK lora \in {"ready", "failed"} : Settle(t, FALSE, lora, FALSE, {})
        BY <1>6, <3>2 DEF FinishUnswept
      <4>2. {} \in SUBSET Parked /\ FALSE \in BOOLEAN
        OBVIOUS
      <4> QED
        BY <4>1, <4>2
    <3> QED
      BY <3>1, <3>2
  <2>2. InFlightRun(t)
    BY <1>6 DEF InFlightRun, InFlight, Inv, RowsOK, Row
  <2>3. account'.lora # "training"
    BY <2>1 DEF Settle, Inv, RowsOK, Account
  <2>4. /\ \A s \in Trainings : /\ training'[s].exec = training[s].exec
                                /\ training'[s].fused = training[s].fused
        /\ \A s \in Trainings \ {t} : training'[s].status = training[s].status
        /\ training'[t].status \in {"completed", "failed"}
    BY <2>1 DEF Settle, Inv, RowsOK, Row
  <2>5. \A s \in Trainings : ~InFlightRun(s)'
    BY <2>2, <2>4 DEF InFlightRun, InFlight, OneEach, OneRun
  <2>6. OneRun'
    BY <2>5 DEF OneEach, OneRun
  <2>7. \A j \in Jobs : job'[j] = job[j] \/ (job[j] = "waiting_lora" /\ job'[j] = "queued")
    BY <2>1 DEF Settle, Parked, InStatus
  <2>8. AttemptsStay /\ LinksStay
    BY <1>3, <1>4, <2>4, <2>7
  <2>9. Apart'
    <3>1. \A j \in inferring : job'[j] = job[j]
      BY <2>7 DEF OneEach, Apart, JobTerminal, Inv, ContainersOK
    <3> QED
      BY <2>5, <3>1 DEF OneEach, Apart
  <2> QED
    BY <2>6, <2>8, <2>9, AttemptsKept, LinkageKept DEF OneEach
<1> QED
  BY <1>5, <1>6

\* A worker's hand is named, as a run's row is.
LEMMA NewHand ==
  ASSUME Inv, NEW w \in Workers, NEW hand, worker' = [worker EXCEPT ![w] = hand]
  PROVE  worker'[w] = hand /\ \A v \in Workers \ {w} : worker'[v] = worker[v]
BY DEF Inv, WorkersOK

\* A worker moves on with its run.
LEMMA GoStep ==
  ASSUME Inv, NEW w \in Workers, NEW pc, Go(w, pc)
  PROVE  /\ worker'[w].pc = pc /\ worker'[w].fused = worker[w].fused
         /\ worker'[w].of = Of(w) /\ worker'[w].exec = worker[w].exec
         /\ \A v \in Workers \ {w} : worker'[v] = worker[v]
<1> DEFINE hand == [worker[w] EXCEPT !.pc = pc]
<1>1. worker[w] \in Hand
  BY DEF Inv, WorkersOK
<1>2. /\ hand.pc = pc /\ hand.fused = worker[w].fused
      /\ hand.of = worker[w].of /\ hand.exec = worker[w].exec
  BY <1>1 DEF Hand
<1>3. worker' = [worker EXCEPT ![w] = hand]
  BY DEF Go
<1> HIDE DEF hand
<1> QED
  BY <1>2, <1>3, NewHand DEF Of

LEMMA BindStep ==
  ASSUME Inv, NEW w \in Workers, NEW j, Bind(w, j)
  PROVE  /\ worker'[w].pc = "start" /\ worker'[w].fused = j
         /\ worker'[w].of = Of(w) /\ worker'[w].exec = worker[w].exec
         /\ \A v \in Workers \ {w} : worker'[v] = worker[v]
<1> DEFINE hand == [worker[w] EXCEPT !.pc = "start", !.fused = j]
<1>1. worker[w] \in Hand
  BY DEF Inv, WorkersOK
<1>2. /\ hand.pc = "start" /\ hand.fused = j
      /\ hand.of = worker[w].of /\ hand.exec = worker[w].exec
  BY <1>1 DEF Hand
<1>3. worker' = [worker EXCEPT ![w] = hand]
  BY DEF Bind
<1> HIDE DEF hand
<1> QED
  BY <1>2, <1>3, NewHand DEF Of

LEMMA SoberFaults ==
  ASSUME Sober
  PROVE  /\ "stuck" \notin Faults /\ "replyLost" \notin Faults /\ "reset" \notin Faults
         /\ "retention" \notin Faults /\ "giveUp" \notin Faults /\ "poison" \notin Faults
BY DEF Sober

LEMMA ReceiveStep ==
  ASSUME NEW w \in Workers, NEW t \in Trainings, Receive(w, t)
  PROVE  /\ UNCHANGED <<account, job, training, execs, inferring, watch, poisoned>>
         /\ \E hand : worker' = [worker EXCEPT ![w] = hand] /\ hand.pc = "held"
<1> DEFINE hand == [Resting EXCEPT !.pc = "held", !.of = t]
<1>1. hand.pc = "held"
  BY DEF Resting
<1>2. /\ UNCHANGED <<account, job, training, execs, inferring, watch, poisoned>>
      /\ worker' = [worker EXCEPT ![w] = hand]
  BY DEF Receive
<1> HIDE DEF hand
<1> QED
  BY <1>1, <1>2

\* Workers rest or take a message, and nothing else changes but messages.
LEMMA RestOneEach ==
  ASSUME Sober, Inv, OneEach, NEW w \in Workers,
         \/ \E t \in Trainings : Receive(w, t)
         \/ Discard(w) \/ Defer(w) \/ WorkerDies(w)
  PROVE  OneEach'
<1>1. UNCHANGED <<account, job, training, execs, inferring, watch, poisoned>>
  <2>1. CASE \E t \in Trainings : Receive(w, t)
    BY <2>1, ReceiveStep
  <2>2. CASE Discard(w)
    BY <2>2 DEF Discard
  <2>3. CASE Defer(w)
    BY <2>3 DEF Defer
  <2>4. CASE WorkerDies(w)
    BY <2>4, SoberFaults DEF WorkerDies
  <2> QED
    BY <2>1, <2>2, <2>3, <2>4
<1>2. PICK hand : worker' = [worker EXCEPT ![w] = hand] /\ hand.pc \in {"idle", "held"}
  <2>1. CASE \E t \in Trainings : Receive(w, t)
    BY <2>1, ReceiveStep
  <2>2. CASE Discard(w) \/ Defer(w) \/ WorkerDies(w)
    <3>1. Rest(w)
      BY <2>2 DEF Discard, Defer, WorkerDies, Return
    <3>2. Resting.pc = "idle"
      BY DEF Resting
    <3> QED
      BY <3>1, <3>2 DEF Rest
  <2> QED
    BY <2>1, <2>2
<1>3. \A v \in Workers : Busy(v)' => worker'[v] = worker[v]
  BY <1>2, NewHand DEF Busy
<1>4. ExecIds' = ExecIds
  BY <1>1 DEF ExecIds
<1>5. RunsStay /\ ApartStays
  BY <1>1 DEF RunsStay, ApartStays, InFlightRun, OneEach, Apart
<1>6. AttemptsStay
  <2>1. \A v \in Workers : Busy(v)' => Busy(v) /\ worker'[v].of = worker[v].of
          /\ (At(v, "record") => At(v, "record")' /\ worker'[v].exec = worker[v].exec)
    BY <1>3 DEF Busy, At
  <2> QED
    BY <1>1, <1>4, <2>1 DEF AttemptsStay, Live
<1>7. LinksStay
  <2>1. \A v \in Workers : Pledged(v)' => Pledged(v) /\ worker'[v] = worker[v]
    BY <1>3 DEF Busy, Pledged
  <2> QED
    BY <1>1, <1>4, <2>1 DEF LinksStay
<1> QED
  BY <1>5, <1>6, <1>7, AllKept

LEMMA ClaimOneEach ==
  ASSUME Inv, OneEach, NEW w \in Workers, Claim(w)
  PROVE  OneEach'
<1>1. PICK t \in Trainings : t = Of(w)
  BY DEF Claim, Inv, HasRun, At
<1> DEFINE row == [training[t] EXCEPT !.status = "dispatching"]
<1>2. /\ row.status = "dispatching" /\ row.exec = None /\ row.fused = training[t].fused
      /\ training[t].status = "queued" /\ training[t].exec = None
  <2>1. training[t] \in Row
    BY DEF Inv, RowsOK
  <2> QED
    BY <1>1, <2>1 DEF Claim, Row
<1>3. training' = [training EXCEPT ![t] = row]
  BY <1>1 DEF Claim
<1> HIDE DEF row
<1>4. training'[t] = row /\ \A s \in Trainings \ {t} : training'[s] = training[s]
  BY <1>3, NewRow
<1>5. /\ worker'[w].pc = "fuse" /\ worker'[w].of = t
      /\ \A v \in Workers \ {w} : worker'[v] = worker[v]
  BY <1>1, GoStep DEF Claim
<1>6. UNCHANGED <<account, job, execs, inferring, watch, poisoned>> /\ ExecIds' = ExecIds
  BY DEF Claim, ExecIds
<1>7. Idle(t)
  BY <1>2, NotStartedIsIdle
<1>8. RunsStay /\ ApartStays
  BY <1>2, <1>4, <1>6 DEF RunsStay, ApartStays, InFlightRun, InFlight, OneEach, Apart
<1>9. LinksStay
  BY <1>2, <1>4, <1>5, <1>6 DEF LinksStay, Pledged
<1>10. Attempts'
  <2>1. \A v \in Workers \ {w} : Busy(v)' => Busy(v) /\ worker'[v] = worker[v] /\ Of(v) # t
    BY <1>5, <1>7 DEF Busy, Idle
  <2>2. \A v \in Workers \ {w} : Busy(v)' => Of(v) \in Trainings \ {t}
    BY <2>1, BusyHasRun
  <2>3. OneWorker'
    BY <1>2, <1>4, <1>5, <2>1, <2>2 DEF OneEach, Attempts, OneWorker, Of
  <2>4. \A e \in ExecIds : Live(e)' => Live(e) /\ execs[e].of \in Trainings \ {t}
    BY <1>6, <1>7, ExecHasRun DEF Live, Idle
  <2>5. OneContainer'
    BY <1>4, <1>5, <1>6, <2>1, <2>4 DEF OneEach, Attempts, OneContainer, Backed, Of, At
  <2>6. WatchesTheDead'
    BY <1>2, <1>4, <1>6 DEF OneEach, Attempts, WatchesTheDead, Live, Inv, HasRun
  <2> QED
    BY <2>3, <2>5, <2>6 DEF Attempts
<1> QED
  BY <1>8, <1>9, <1>10, OneRunStays, LinkageKept, ApartKept DEF OneEach

LEMMA FuseNewOneEach ==
  ASSUME Inv, OneEach, NEW w \in Workers, FuseNew(w)
  PROVE  OneEach'
<1>1. PICK t \in Trainings : t = Of(w)
  BY DEF FuseNew, Inv, HasRun, At
<1>2. PICK j \in Jobs :
        /\ job[j] = "waiting_lora" /\ ~Linked(j)
        /\ job' = [job EXCEPT ![j] = "processing"]
        /\ training' = [training EXCEPT ![t].fused = j]
        /\ Bind(w, j)
  BY <1>1 DEF FuseNew, InStatus
<1> DEFINE row == [training[t] EXCEPT !.fused = j]
<1>3. /\ row.status = training[t].status /\ row.exec = training[t].exec /\ row.fused = j
      /\ training[t].fused = None /\ training[t].status = "dispatching"
  <2>1. training[t] \in Row
    BY DEF Inv, RowsOK
  <2>2. training[t].status = "dispatching" /\ training[t].fused = None
    BY <1>1 DEF FuseNew, At, Busy, OneEach, Attempts, OneWorker
  <2> QED
    BY <2>1, <2>2 DEF Row
<1>4. training' = [training EXCEPT ![t] = row]
  BY <1>2
<1> HIDE DEF row
<1>5. training'[t] = row /\ \A s \in Trainings \ {t} : training'[s] = training[s]
  BY <1>4, NewRow
<1>6. /\ worker[w].pc = "fuse" /\ worker'[w].pc = "start" /\ worker'[w].of = t
      /\ worker'[w].fused = j /\ \A v \in Workers \ {w} : worker'[v] = worker[v]
  BY <1>1, <1>2, BindStep DEF FuseNew, At
<1>7. UNCHANGED <<account, execs, inferring, watch, poisoned>> /\ ExecIds' = ExecIds
  BY DEF FuseNew, ExecIds
<1>8. job'[j] = "processing" /\ \A i \in Jobs \ {j} : job'[i] = job[i]
  BY <1>2 DEF Inv, RowsOK
<1>9. RunsStay
  BY <1>3, <1>5, <1>7 DEF RunsStay, InFlightRun
<1>10. AttemptsStay
  <2>1. \A v \in Workers : Busy(v)' => Busy(v) /\ worker'[v].of = worker[v].of
          /\ (At(v, "record") => At(v, "record")' /\ worker'[v].exec = worker[v].exec)
    BY <1>1, <1>6 DEF Busy, At, Of
  <2> QED
    BY <1>3, <1>5, <1>7, <2>1 DEF AttemptsStay, Live, Inv, HasRun
<1>11. Linkage'
  <2>1. ASSUME NEW v \in Workers, Pledged(v)', worker'[v].fused # None
        PROVE  training'[worker'[v].of].fused = worker'[v].fused
    <3>1. CASE v = w
      BY <1>3, <1>5, <1>6, <3>1
    <3>2. CASE v # w
      <4>1. Pledged(v) /\ worker'[v] = worker[v] /\ Busy(v) /\ Busy(w)
        BY <1>6, <2>1, <3>2 DEF Pledged, Busy
      <4>2. Of(v) \in Trainings \ {t}
        BY <1>1, <3>2, <4>1, BusyHasRun DEF OneEach, Attempts, OneWorker
      <4> QED
        BY <1>5, <2>1, <4>1, <4>2 DEF OneEach, Linkage, Of
    <3> QED
      BY <3>1, <3>2
  <2>2. ASSUME NEW e \in ExecIds, execs[e].fused # None
        PROVE  training'[execs[e].of].fused = execs[e].fused
    BY <1>3, <1>5, <2>2, ExecHasRun DEF OneEach, Linkage
  <2>3. \A s \in Trainings : training[s].fused # j
    BY <1>2 DEF Linked
  <2>4. ASSUME NEW s \in Trainings, NEW r \in Trainings, training'[s].fused # None,
               training'[s].fused = training'[r].fused
        PROVE  s = r
    BY <1>3, <1>5, <2>3, <2>4 DEF OneEach, Linkage
  <2>5. ASSUME NEW s \in Trainings, training'[s].fused # None
        PROVE  training'[s].status # "absent" /\ job'[training'[s].fused] # "absent"
    <3>1. training[s].fused \in Jobs \cup {None}
      BY DEF Inv, RowsOK, Row
    <3> QED
      BY <1>3, <1>5, <1>8, <2>5, <3>1 DEF OneEach, Linkage
  <2> QED
    BY <1>7, <2>1, <2>2, <2>4, <2>5 DEF Linkage, Of
<1>12. Apart'
  <2>1. j \notin inferring /\ inferring \subseteq Jobs
    BY <1>2 DEF OneEach, Apart, JobTerminal, Inv, ContainersOK
  <2>2. ASSUME NEW s \in Trainings, InFlightRun(s)', training'[s].fused # None
        PROVE  training'[s].fused \notin inferring /\ job'[training'[s].fused] # "queued"
    <3>1. training[s].fused \in Jobs \cup {None} /\ InFlightRun(s)
      BY <1>9, <2>2 DEF Inv, RowsOK, Row, RunsStay
    <3> QED
      BY <1>3, <1>5, <1>8, <2>1, <2>2, <3>1 DEF OneEach, Apart
  <2> QED
    BY <1>7, <1>8, <2>1, <2>2 DEF OneEach, Apart
<1> QED
  BY <1>9, <1>10, <1>11, <1>12, OneRunStays, AttemptsKept DEF OneEach

\* A worker goes on with the job its run is linked to, or with none.
LEMMA GoOnOneEach ==
  ASSUME Inv, OneEach, NEW w \in Workers, NEW t \in Trainings, t = Of(w),
         UNCHANGED <<account, training, execs, inferring, watch, poisoned>>,
         Busy(w), ~At(w, "record"),
         worker'[w].pc \in {"start", "unclaim", "revert"}, worker'[w].of = t,
         worker'[w].fused # None => training[t].fused = worker'[w].fused,
         \A v \in Workers \ {w} : worker'[v] = worker[v],
         \A j \in Jobs : \/ job'[j] = job[j]
                         \/ job[j] # "absent" /\ job'[j] = "processing"
                         \/ job[j] # "absent" /\ job'[j] = "waiting_lora" /\ j \notin inferring
  PROVE  OneEach'
<1>1. ExecIds' = ExecIds
  BY DEF ExecIds
<1>2. RunsStay
  BY DEF RunsStay, InFlightRun
<1>3. AttemptsStay
  <2>1. \A v \in Workers : Busy(v)' => Busy(v) /\ worker'[v].of = worker[v].of
          /\ (At(v, "record") => At(v, "record")' /\ worker'[v].exec = worker[v].exec)
    BY DEF Busy, At, Of
  <2> QED
    BY <1>1, <2>1 DEF AttemptsStay, Live
<1>4. LinksStay
  <2>1. \A v \in Workers \ {w} : Pledged(v)' => Pledged(v) /\ worker'[v] = worker[v]
    BY DEF Pledged
  <2> QED
    BY <1>1, <2>1 DEF LinksStay
<1>5. ApartStays
  <2>1. inferring \subseteq Jobs
    BY DEF Inv, ContainersOK
  <2> QED
    BY <2>1 DEF ApartStays, InFlightRun, OneEach, Apart
<1> QED
  BY <1>2, <1>3, <1>4, <1>5, AllKept

LEMMA DispatchOneEach ==
  ASSUME Sober, Inv, OneEach, NEW w \in Workers,
         FuseAgain(w) \/ TrainOnly(w) \/ StartRaises(w) \/ Unclaim(w)
  PROVE  OneEach'
<1>1. PICK t \in Trainings : t = Of(w)
  BY DEF FuseAgain, TrainOnly, StartRaises, Unclaim, Inv, HasRun, At
<1>2. UNCHANGED <<account, training, execs, inferring, watch, poisoned>>
  BY DEF Sober, FuseAgain, TrainOnly, StartRaises, Unclaim
<1>3. Busy(w) /\ ~At(w, "record")
  BY DEF FuseAgain, TrainOnly, StartRaises, Unclaim, At, Busy
<1>4. CASE FuseAgain(w) \/ TrainOnly(w)
  <2>1. PICK j : /\ Bind(w, j) /\ (j # None => training[t].fused = j)
                 /\ \/ UNCHANGED job
                    \/ job' = [job EXCEPT ![j] = "processing"] /\ job[j] # "absent"
    BY <1>1, <1>4 DEF FuseAgain, TrainOnly
  <2>2. /\ worker'[w].pc = "start" /\ worker'[w].of = t /\ worker'[w].fused = j
        /\ \A v \in Workers \ {w} : worker'[v] = worker[v]
    BY <1>1, <2>1, BindStep
  <2>3. \A i \in Jobs : job'[i] = job[i] \/ (job[i] # "absent" /\ job'[i] = "processing")
    BY <2>1 DEF Inv, RowsOK
  <2> QED
    BY <1>1, <1>2, <1>3, <2>1, <2>2, <2>3, GoOnOneEach
<1>5. CASE StartRaises(w) \/ Unclaim(w)
  <2>1. PICK pc \in {"unclaim", "revert"} : Go(w, pc)
    BY <1>5 DEF StartRaises, Unclaim
  <2>2. /\ worker'[w].pc = pc /\ worker'[w].of = t /\ worker'[w].fused = worker[w].fused
        /\ \A v \in Workers \ {w} : worker'[v] = worker[v]
    BY <1>1, <2>1, GoStep
  <2>3. Pledged(w) /\ InFlightRun(t)
    BY <1>1, <1>3, <1>5 DEF StartRaises, Unclaim, At, Pledged, OneEach, Attempts, OneWorker,
                            InFlightRun, InFlight
  <2>4. worker[w].fused # None => training[t].fused = worker[w].fused
    BY <1>1, <2>3 DEF OneEach, Linkage
  <2>5. \A i \in Jobs : \/ job'[i] = job[i]
                        \/ /\ job[i] = "processing" /\ job'[i] = "waiting_lora"
                           /\ i \notin inferring
    <3>1. worker[w].fused # None => worker[w].fused \notin inferring
      BY <2>3, <2>4 DEF OneEach, Apart
    <3>2. CASE StartRaises(w)
      BY <3>2 DEF StartRaises
    <3>3. CASE Unclaim(w)
      BY <3>1, <3>3 DEF Unclaim, Inv, RowsOK
    <3> QED
      BY <1>5, <3>2, <3>3
  <2> QED
    BY <1>1, <1>2, <1>3, <2>2, <2>4, <2>5, GoOnOneEach
<1> QED
  BY <1>4, <1>5

LEMMA StartOneEach ==
  ASSUME Inv, OneEach, NEW w \in Workers, Start(w)
  PROVE  OneEach'
<1>1. PICK t \in Trainings : t = Of(w)
  BY DEF Start, Inv, HasRun, At
<1>0. PICK n : n = Len(execs) + 1
  OBVIOUS
<1> DEFINE new == [of |-> t, fused |-> worker[w].fused, phase |-> "training"]
           hand == [worker[w] EXCEPT !.pc = "record", !.exec = n]
<1>2. /\ execs \in Seq(Execution) /\ execs' = Append(execs, new) /\ Len(execs) \in Nat
      /\ worker' = [worker EXCEPT ![w] = hand] /\ worker[w] \in Hand
  <2>1. execs \in Seq(Execution) /\ worker[w] \in Hand
    BY DEF Inv, ContainersOK, WorkersOK
  <2>2. execs' = Append(execs, new)
    BY <1>1 DEF Start, Launch
  <2>3. worker' = [worker EXCEPT ![w] = hand]
    BY <1>0 DEF Start
  <2> QED
    BY <2>1, <2>2, <2>3
<1>3. /\ hand.pc = "record" /\ hand.exec = n
      /\ hand.of = worker[w].of /\ hand.fused = worker[w].fused
  BY <1>2 DEF Hand
<1>4. new.of = t /\ new.fused = worker[w].fused
  OBVIOUS
<1> HIDE DEF new, hand
<1>5. /\ ExecIds' = ExecIds \cup {n} /\ n \notin ExecIds /\ execs'[n] = new
      /\ \A e \in ExecIds : execs'[e] = execs[e]
  BY <1>0, <1>2 DEF ExecIds
<1>6. worker'[w] = hand /\ \A v \in Workers \ {w} : worker'[v] = worker[v]
  BY <1>2, NewHand
<1>7. /\ UNCHANGED <<account, job, training, inferring, watch, poisoned>>
      /\ worker[w].pc = "start"
  BY DEF Start, At
<1>8. RunsStay /\ ApartStays
  BY <1>7 DEF RunsStay, ApartStays, InFlightRun, OneEach, Apart
<1>9. LinksStay
  <2>1. \A v \in Workers : Pledged(v)' => Pledged(v) /\ worker'[v].of = worker[v].of
                                        /\ worker'[v].fused = worker[v].fused
    BY <1>3, <1>6, <1>7 DEF Pledged
  <2>2. worker[w].fused # None => training[t].fused = worker[w].fused
    BY <1>1, <1>7 DEF OneEach, Linkage, Pledged
  <2> QED
    BY <1>4, <1>5, <1>7, <2>1, <2>2 DEF LinksStay
<1>10. Attempts'
  <2>1. \A v \in Workers : Busy(v)' => Busy(v) /\ worker'[v].of = worker[v].of
    BY <1>3, <1>6, <1>7 DEF Busy
  <2>2. OneWorker'
    BY <1>7, <2>1 DEF OneEach, Attempts, OneWorker, Of
  <2>3. \A e \in ExecIds : Live(e)' => Live(e) /\ execs'[e].of = execs[e].of /\ execs[e].of # t
    BY <1>1, <1>5, <1>7 DEF OneEach, Attempts, OneContainer, Live, Busy, At
  <2>4. Backed(n)'
    BY <1>1, <1>4, <1>5, <1>7 DEF Backed, OneEach, Attempts, OneWorker, Busy
  <2>5. \A e \in ExecIds' : Live(e)' => Backed(e)'
    BY <1>5, <1>7, <2>3, <2>4 DEF OneEach, Attempts, OneContainer, Backed
  <2>6. \A e, f \in ExecIds' : Live(e)' /\ Live(f)' /\ execs'[e].of = execs'[f].of => e = f
    BY <1>4, <1>5, <2>3 DEF OneEach, Attempts, OneContainer
  <2>7. ASSUME NEW v \in Workers, NEW e \in ExecIds', Busy(v)', Live(e)', execs'[e].of = worker'[v].of
        PROVE  At(v, "record")' /\ worker'[v].exec = e
    <3>1. CASE v = w
      BY <1>1, <1>3, <1>5, <1>6, <2>3, <2>7, <3>1 DEF At, Of
    <3>2. CASE v # w
      <4>1. Busy(v) /\ Busy(w) /\ worker'[v] = worker[v]
        BY <1>6, <1>7, <2>1, <2>7, <3>2 DEF Busy
      <4>2. Of(v) # t
        BY <1>1, <3>2, <4>1 DEF OneEach, Attempts, OneWorker
      <4>3. e \in ExecIds /\ execs'[e].of = execs[e].of /\ Live(e)
        BY <1>4, <1>5, <2>3, <2>7, <4>1, <4>2 DEF Of
      <4> QED
        BY <2>7, <4>1, <4>3 DEF OneEach, Attempts, OneContainer, At, Of
    <3> QED
      BY <3>1, <3>2
  <2>8. OneContainer'
    BY <2>5, <2>6, <2>7 DEF OneContainer, Of
  <2>9. WatchesTheDead'
    BY <1>5, <1>7 DEF OneEach, Attempts, WatchesTheDead, Live
  <2> QED
    BY <2>2, <2>8, <2>9 DEF Attempts
<1> QED
  BY <1>8, <1>9, <1>10, OneRunStays, LinkageKept, ApartKept DEF OneEach

\* A worker gives its run up before a container of it was started.
LEMMA LeftIdle ==
  ASSUME Inv, OneEach, NEW w \in Workers, NEW t \in Trainings, t = Of(w), At(w, "revert"),
         UNCHANGED execs, Rest(w)
  PROVE  /\ Idle(t)' /\ worker'[w] = Resting /\ \A v \in Workers \ {w} : worker'[v] = worker[v]
         /\ training[t].status = "dispatching" /\ training[t].exec = None
<1>1. worker'[w] = Resting /\ \A v \in Workers \ {w} : worker'[v] = worker[v]
  BY NewHand DEF Rest
<1>2. Busy(w)
  BY DEF At, Busy
<1>3. \A v \in Workers : Busy(v)' => worker'[v].of # t
  BY <1>1, <1>2 DEF Busy, Resting, OneEach, Attempts, OneWorker, Of
<1>4. \A e \in ExecIds' : Live(e)' => execs'[e].of # t
  BY <1>2 DEF At, ExecIds, Live, OneEach, Attempts, OneContainer
<1> QED
  BY <1>1, <1>2, <1>3, <1>4 DEF Idle, Of, OneEach, Attempts, OneWorker

LEMMA RevertOneEach ==
  ASSUME Sober, Inv, OneEach, NEW w \in Workers, Revert(w)
  PROVE  OneEach'
<1>1. PICK t \in Trainings : t = Of(w)
  BY DEF Revert, Inv, HasRun, At
<1>2. /\ UNCHANGED <<account, job, execs, inferring, watch, poisoned>> /\ Rest(w)
      /\ ExecIds' = ExecIds
  BY SoberFaults DEF Revert, Return, ExecIds
<1>3. /\ Idle(t)' /\ worker'[w] = Resting /\ \A v \in Workers \ {w} : worker'[v] = worker[v]
      /\ training[t].status = "dispatching" /\ training[t].exec = None
  BY <1>1, <1>2, LeftIdle DEF Revert
<1> DEFINE row == [training[t] EXCEPT !.status = IF @ = "dispatching" THEN "queued" ELSE @]
<1>4. row.status = "queued" /\ row.exec = training[t].exec /\ row.fused = training[t].fused
  <2>1. training[t] \in Row
    BY DEF Inv, RowsOK
  <2> QED
    BY <1>3, <2>1 DEF Row
<1>5. training' = [training EXCEPT ![t] = row]
  BY <1>1 DEF Revert
<1> HIDE DEF row
<1>6. training'[t] = row /\ \A s \in Trainings \ {t} : training'[s] = training[s]
  BY <1>5, NewRow
<1>7. RunsStay /\ ApartStays
  BY <1>2, <1>3, <1>4, <1>6 DEF RunsStay, ApartStays, InFlightRun, InFlight, OneEach, Apart
<1>8. \A v \in Workers : Busy(v)' => worker'[v] = worker[v]
  BY <1>3 DEF Busy, Resting
<1>9. AttemptsStay
  <2>1. \A v \in Workers : Busy(v)' => Busy(v) /\ worker'[v].of = worker[v].of
          /\ (At(v, "record") => At(v, "record")' /\ worker'[v].exec = worker[v].exec)
    BY <1>8 DEF Busy, At
  <2> QED
    BY <1>2, <1>3, <1>4, <1>6, <2>1 DEF AttemptsStay, Live, Inv, HasRun
<1>10. LinksStay
  <2>1. \A v \in Workers : Pledged(v)' => Pledged(v) /\ worker'[v] = worker[v]
    BY <1>8 DEF Busy, Pledged
  <2> QED
    BY <1>2, <1>4, <1>6, <2>1 DEF LinksStay
<1> QED
  BY <1>7, <1>9, <1>10, AllKept

LEMMA RejectOneEach ==
  ASSUME Inv, OneEach, NEW w \in Workers, Reject(w)
  PROVE  OneEach'
<1>1. PICK t \in Trainings : t = Of(w)
  BY DEF Reject, Inv, HasRun, At
<1>2. /\ UNCHANGED <<execs, inferring, watch, poisoned>> /\ Rest(w) /\ At(w, "revert")
      /\ Finish(t, FALSE)
  BY <1>1 DEF Reject
<1>3. /\ Idle(t)' /\ worker'[w] = Resting /\ \A v \in Workers \ {w} : worker'[v] = worker[v]
      /\ training[t].status # "absent"
  BY <1>1, <1>2, LeftIdle
<1> QED
  BY <1>2, <1>3, FinishOneEach

LEMMA RecordOneEach ==
  ASSUME Inv, OneEach, NEW w \in Workers, Record(w)
  PROVE  OneEach'
<1>1. PICK t \in Trainings : t = Of(w)
  BY DEF Record, Inv, HasRun, At
<1>2. /\ UNCHANGED <<account, job, execs, inferring, watch, poisoned>> /\ Rest(w)
      /\ ExecIds' = ExecIds /\ At(w, "record") /\ Busy(w)
  BY DEF Record, ExecIds, At, Busy
<1>3. training[t].status = "dispatching" /\ training[t].exec = None
  BY <1>1, <1>2 DEF OneEach, Attempts, OneWorker
<1>4. worker'[w] = Resting /\ \A v \in Workers \ {w} : worker'[v] = worker[v]
  BY <1>2, NewHand DEF Rest
<1> DEFINE row == [training[t] EXCEPT !.status = "training", !.exec = worker[w].exec]
<1>5. row.status = "training" /\ row.exec = worker[w].exec /\ row.fused = training[t].fused
  <2>1. training[t] \in Row
    BY DEF Inv, RowsOK
  <2> QED
    BY <2>1 DEF Row
<1>6. training' = [training EXCEPT ![t] = row]
  BY <1>1, <1>3 DEF Record
<1> HIDE DEF row
<1>7. training'[t] = row /\ \A s \in Trainings \ {t} : training'[s] = training[s]
  BY <1>6, NewRow
<1>8. RunsStay /\ ApartStays
  BY <1>2, <1>3, <1>5, <1>7 DEF RunsStay, ApartStays, InFlightRun, InFlight, OneEach, Apart
<1>9. \A v \in Workers : Busy(v)' => v # w /\ worker'[v] = worker[v] /\ Busy(v)
  BY <1>4 DEF Busy, Resting
<1>10. LinksStay
  <2>1. \A v \in Workers : Pledged(v)' => Pledged(v) /\ worker'[v] = worker[v]
    BY <1>9 DEF Busy, Pledged
  <2> QED
    BY <1>2, <1>5, <1>7, <2>1 DEF LinksStay
<1>11. Attempts'
  <2>1. \A v \in Workers : Busy(v)' => Of(v) \in Trainings \ {t}
    BY <1>1, <1>2, <1>9, BusyHasRun DEF OneEach, Attempts, OneWorker
  <2>2. OneWorker'
    BY <1>7, <1>9, <2>1 DEF OneEach, Attempts, OneWorker, Of
  <2>3. \A e \in ExecIds : Live(e) /\ execs[e].of = t => worker[w].exec = e
    BY <1>1, <1>2 DEF OneEach, Attempts, OneContainer
  <2>4. \A e \in ExecIds : Live(e) => Backed(e)'
    BY <1>2, <1>5, <1>7, <2>3, ExecHasRun DEF OneEach, Attempts, OneContainer, Backed
  <2>5. OneContainer'
    BY <1>2, <1>9, <2>4 DEF OneEach, Attempts, OneContainer, Live, At, Of
  <2>6. WatchesTheDead'
    <3>1. watch.verdict # "none" => watch.exec \in ExecIds /\ watch.of \in Trainings \ {t}
      <4>1. None \notin ExecIds
        BY DEF ExecIds, Inv, ContainersOK
      <4> QED
        BY <1>3, <4>1 DEF OneEach, Attempts, WatchesTheDead, Inv, HasRun
    <3> QED
      BY <1>2, <1>7, <3>1 DEF OneEach, Attempts, WatchesTheDead, Live
  <2> QED
    BY <2>2, <2>5, <2>6 DEF Attempts
<1> QED
  BY <1>8, <1>10, <1>11, OneRunStays, LinkageKept, ApartKept DEF OneEach

LEMMA ContainerOneEach ==
  ASSUME Inv, OneEach, NEW e \in ExecIds,
         Run(e) \/ NeverRuns(e) \/ TrainingFails(e) \/ GenerationFails(e) \/ Dies(e)
  PROVE  OneEach'
<1>1. ContainerOnly /\ execs[e] \in Execution /\ execs \in Seq(Execution) /\ UNCHANGED inferring
  BY DEF Run, Trained, Generate, Generated, NeverRuns, TrainingFails, GenerationFails, Dies,
         Inv, ContainersOK, ExecIds
<1>2. PICK p : Phase(e, p) /\ Live(e)
  <2>1. CASE Trained(e) \/ Generate(e) \/ Generated(e)
    BY <2>1 DEF Trained, Generate, Generated, Live, Ended
  <2>2. CASE NeverRuns(e) \/ TrainingFails(e) \/ GenerationFails(e)
    BY <2>2 DEF NeverRuns, TrainingFails, GenerationFails, Live, Ended
  <2>3. CASE Dies(e)
    BY <2>3 DEF Dies
  <2> QED
    BY <2>1, <2>2, <2>3 DEF Run
<1> DEFINE new == [execs[e] EXCEPT !.phase = p]
<1>3. execs' = [execs EXCEPT ![e] = new] /\ new.of = execs[e].of /\ new.fused = execs[e].fused
  BY <1>1, <1>2 DEF Phase, Execution
<1> HIDE DEF new
<1>4. /\ ExecIds' = ExecIds /\ execs'[e] = new
      /\ \A f \in ExecIds \ {e} : execs'[f] = execs[f]
  BY <1>1, <1>3 DEF ExecIds
<1>5. account'.lora = account.lora
  BY DEF Run, Trained, Generate, Generated, NeverRuns, TrainingFails, GenerationFails, Dies,
         FailJob, Inv, RowsOK, Account
<1>6. \A j \in Jobs : job'[j] = job[j] \/ (job'[j] \in {"processing", "completed", "failed"}
                                            /\ job[j] \notin JobTerminal)
  BY DEF Run, Trained, Generate, Generated, NeverRuns, TrainingFails, GenerationFails, Dies,
         FailJob, Write, Inv, RowsOK
<1>7. RunsStay
  BY <1>1, <1>5 DEF RunsStay, ContainerOnly, InFlightRun
<1>8. AttemptsStay
  <2>1. \A f \in ExecIds : execs'[f].of = execs[f].of /\ (Live(f)' => Live(f))
                           /\ (~Live(f) => ~Live(f)')
    BY <1>2, <1>3, <1>4 DEF Live
  <2> QED
    BY <1>1, <1>4, <2>1 DEF AttemptsStay, ContainerOnly, Busy, At
<1>9. LinksStay
  <2>1. \A f \in ExecIds : execs'[f].of = execs[f].of /\ execs'[f].fused = execs[f].fused
    BY <1>3, <1>4
  <2> QED
    BY <1>1, <1>4, <1>6, <2>1 DEF LinksStay, ContainerOnly, Pledged
<1>10. ApartStays
  <2>1. inferring \subseteq Jobs
    BY DEF Inv, ContainersOK
  <2> QED
    BY <1>1, <1>6, <2>1 DEF ApartStays, ContainerOnly, InFlightRun, OneEach, Apart, JobTerminal
<1> QED
  BY <1>7, <1>8, <1>9, <1>10, AllKept

\* What happens to a job that is served, ends or is failed.
LEMMA JobsOneEach ==
  ASSUME Inv, OneEach, NEW j \in Jobs,
         FailParked(j) \/ SkipParked(j) \/ Serve(j) \/ Infer(j) \/ Reap(j)
  PROVE  OneEach'
<1>1. /\ UNCHANGED <<training, worker, execs, watch, poisoned>>
      /\ account'.lora = account.lora
  BY DEF FailParked, SkipParked, Serve, Infer, Reap, ContainerOnly, FailJob, Inv, RowsOK, Account
<1>2. /\ \A i \in Jobs \ {j} : job'[i] = job[i]
      /\ job'[j] = job[j] \/ job'[j] \in {"processing"} \cup JobTerminal
  <2>1. CASE FailParked(j) \/ SkipParked(j) \/ Reap(j)
    <3>1. UNCHANGED job \/ job' = [job EXCEPT ![j] = "failed"]
      BY <2>1 DEF FailParked, SkipParked, Reap, FailJob
    <3> QED
      BY <3>1 DEF Inv, RowsOK, JobTerminal
  <2>2. CASE Serve(j)
    BY <2>2 DEF Serve, Write, Inv, RowsOK, JobTerminal
  <2>3. CASE Infer(j)
    BY <2>3 DEF Infer, Write, FailJob, Inv, RowsOK, JobTerminal
  <2> QED
    BY <2>1, <2>2, <2>3
<1>3. RunsStay /\ AttemptsStay /\ LinksStay
  <2>1. \A i \in Jobs : job'[i] = "absent" => job[i] = "absent"
    BY <1>2 DEF JobTerminal
  <2> QED
    BY <1>1, <2>1, Bystanders DEF RunsStay, InFlightRun
<1>4. inferring' \subseteq inferring \/ (inferring' = inferring \cup {j} /\ job[j] = "queued"
                                        /\ job'[j] = "processing")
  BY DEF FailParked, SkipParked, Serve, Infer, Reap, Write, Inv, RowsOK, JobTerminal
<1>5. Apart'
  <2>1. inferring \subseteq Jobs /\ \A t \in Trainings : training[t].fused \in Jobs \cup {None}
    BY DEF Inv, ContainersOK, RowsOK, Row
  <2>2. ASSUME NEW i \in inferring' PROVE job'[i] \in {"processing"} \cup JobTerminal
    BY <1>2, <1>4, <2>1, <2>2 DEF OneEach, Apart
  <2>3. ASSUME NEW t \in Trainings, InFlightRun(t)', training'[t].fused # None
        PROVE  training'[t].fused \notin inferring' /\ job'[training'[t].fused] # "queued"
    <3>1. PICK i \in Jobs : i = training[t].fused /\ i = training'[t].fused
      BY <1>1, <2>1, <2>3
    <3>2. i \notin inferring /\ job[i] # "queued"
      BY <1>1, <2>3, <3>1 DEF OneEach, Apart, InFlightRun
    <3>3. job'[i] # "queued" /\ i \notin inferring'
      BY <1>2, <1>4, <3>2 DEF JobTerminal
    <3> QED
      BY <3>1, <3>3
  <2> QED
    BY <2>2, <2>3 DEF Apart
<1> QED
  BY <1>3, <1>5, OneRunStays, AttemptsKept, LinkageKept DEF OneEach

\* A message is delivered, or nothing happens at all.
LEMMA QuietOneEach ==
  ASSUME Inv, OneEach,
         UNCHANGED <<account, job, training, worker, execs, watch, inferring, poisoned>>
  PROVE  OneEach'
<1>1. AttemptsStay /\ LinksStay
  BY Bystanders
<1>2. RunsStay /\ ApartStays
  BY DEF RunsStay, ApartStays, InFlightRun, OneEach, Apart
<1> QED
  BY <1>1, <1>2, AllKept

\* The run whose execution the watcher saw end is idle.
LEMMA WatchedIsIdle ==
  ASSUME Inv, Carried, OneEach, watch.verdict # "none"
  PROVE  /\ watch.of \in Trainings /\ Idle(watch.of)
         /\ training[watch.of].status # "absent"
         /\ training[watch.of].exec = watch.exec /\ watch.exec \in ExecIds
<1>1. PICK t \in Trainings : t = watch.of
  BY DEF Inv, HasRun
<1>2. watch.exec \in ExecIds /\ ~Live(watch.exec) /\ training[t].exec = watch.exec
  BY <1>1 DEF OneEach, Attempts, WatchesTheDead
<1>3. training[t].exec # None
  BY <1>2 DEF ExecIds, Inv, ContainersOK
<1>4. training[t].status # "absent"
  BY <1>3 DEF Carried, Unstarted
<1>5. Idle(t)
  <2>1. \A w \in Workers : Busy(w) => Of(w) # t
    BY <1>3 DEF OneEach, Attempts, OneWorker
  <2>2. \A e \in ExecIds : Live(e) => execs[e].of # t
    BY <1>2, <1>3 DEF OneEach, Attempts, OneContainer, Backed
  <2> QED
    BY <2>1, <2>2 DEF Idle
<1> QED
  BY <1>1, <1>2, <1>4, <1>5

LEMMA LookOneEach ==
  ASSUME Sober, Inv, OneEach, NEW t \in Trainings, Look(t) \/ Age(t)
  PROVE  OneEach'
<1>1. Look(t)
  BY SoberFaults DEF Age
<1>2. UNCHANGED <<account, job, training, worker, execs, inferring, poisoned>>
      /\ ExecIds' = ExecIds
  BY <1>1 DEF Look, WatcherOnly, ExecIds
<1>3. RunsStay /\ ApartStays
  BY <1>2 DEF RunsStay, ApartStays, InFlightRun, OneEach, Apart
<1>4. LinksStay
  BY <1>2 DEF LinksStay, Pledged
<1>5. watch'.of = t /\ watch'.exec = training[t].exec /\ training[t].exec \in ExecIds
      /\ ~Live(training[t].exec)
  <2>1. training[t].exec \in ExecIds
    BY <1>1 DEF Look, Inv, RowsOK, Row
  <2>2. PICK v : v \in Verdicts(execs[training[t].exec].phase) /\ Sees(t, v)
    BY <1>1 DEF Look
  <2>3. execs[training[t].exec].phase \in Ended
    BY <2>2 DEF Verdicts, Ended
  <2> QED
    BY <2>1, <2>2, <2>3 DEF Sees, Live
<1>6. Attempts'
  <2>1. OneWorker'
    BY <1>2 DEF OneEach, Attempts, OneWorker, Busy, Of
  <2>2. OneContainer'
    BY <1>2 DEF OneEach, Attempts, OneContainer, Backed, Live, Busy, At, Of
  <2>3. WatchesTheDead'
    BY <1>2, <1>5 DEF WatchesTheDead, Live
  <2> QED
    BY <2>1, <2>2, <2>3 DEF Attempts
<1> QED
  BY <1>3, <1>4, <1>6, OneRunStays, LinkageKept, ApartKept DEF OneEach

LEMMA RetryOneEach ==
  ASSUME Inv, Carried, OneEach, Retry
  PROVE  OneEach'
<1>1. PICK t \in Trainings : t = watch.of
  BY DEF Retry, Inv, HasRun
<1>2. Idle(t) /\ InFlightRun(t)
  BY <1>1, WatchedIsIdle DEF Retry, InFlightRun
<1>3. /\ UNCHANGED <<account, worker, execs, inferring, poisoned>> /\ watch'.verdict = "none"
      /\ ExecIds' = ExecIds
  BY DEF Retry, WatcherOnly, Done, NoWatch, ExecIds
<1> DEFINE row == [training[t] EXCEPT !.status = "queued", !.exec = None,
                                      !.history = @ \cup {watch.exec}]
<1>4. row.status = "queued" /\ row.exec = None /\ row.fused = training[t].fused
      /\ training[t].fused \in Jobs \cup {None}
  <2>1. training[t] \in Row
    BY DEF Inv, RowsOK
  <2> QED
    BY <2>1 DEF Row
<1>5. training' = [training EXCEPT ![t] = row]
  BY <1>1 DEF Retry
<1> HIDE DEF row
<1>6. training'[t] = row /\ \A s \in Trainings \ {t} : training'[s] = training[s]
  BY <1>5, NewRow
<1>7. \A j \in Jobs : \/ job'[j] = job[j]
                      \/ /\ j = training[t].fused /\ job[j] = "processing"
                         /\ job'[j] = "waiting_lora"
  BY <1>1 DEF Retry, Reclaimable, Inv, RowsOK
<1>8. RunsStay
  BY <1>2, <1>3, <1>6 DEF RunsStay, InFlightRun
<1>9. AttemptsStay
  BY <1>2, <1>3, <1>6 DEF AttemptsStay, Idle, Busy, At, Live, Of
<1>10. LinksStay
  BY <1>3, <1>4, <1>6, <1>7 DEF LinksStay, Pledged
<1>11. ApartStays
  <2>1. inferring \subseteq Jobs /\ training[t].fused \notin inferring
    BY <1>2, <1>4 DEF Inv, ContainersOK, OneEach, Apart
  <2> QED
    BY <1>2, <1>3, <1>4, <1>6, <1>7, <2>1 DEF ApartStays, InFlightRun, OneEach, Apart
<1> QED
  BY <1>8, <1>9, <1>10, <1>11, AllKept

LEMMA ExhaustOneEach ==
  ASSUME Inv, OneEach, Exhaust
  PROVE  OneEach'
<1>1. PICK t \in Trainings : t = watch.of
  BY DEF Exhaust, Inv, HasRun
<1>2. /\ UNCHANGED <<worker, execs, inferring, poisoned>> /\ ExecIds' = ExecIds
      /\ account'.lora = account.lora
  BY DEF Exhaust, WatcherOnly, ExecIds, FailJob, Inv, RowsOK, Account
<1> DEFINE row == [training[t] EXCEPT !.history = @ \cup {watch.exec}]
<1>3. row.status = training[t].status /\ row.exec = training[t].exec
      /\ row.fused = training[t].fused
  <2>1. training[t] \in Row
    BY DEF Inv, RowsOK
  <2> QED
    BY <2>1 DEF Row
<1>4. training' = training \/ training' = [training EXCEPT ![t] = row]
  BY <1>1 DEF Exhaust
<1> HIDE DEF row
<1>5. \A s \in Trainings : /\ training'[s].status = training[s].status
                           /\ training'[s].exec = training[s].exec
                           /\ training'[s].fused = training[s].fused
  BY <1>3, <1>4, NewRow
<1>6. \A j \in Jobs : job'[j] = job[j] \/ job'[j] = "failed"
  BY DEF Exhaust, FailJob, Inv, RowsOK
<1>7. watch'.of = t /\ watch'.exec = watch.exec /\ watch.verdict = "spent"
  <2>1. watch' = [watch EXCEPT !.verdict = "exhausted"] /\ watch \in Sight
    BY DEF Exhaust, Inv, WatcherOK
  <2> QED
    BY <1>1, <2>1 DEF Sight, Exhaust
<1>8. RunsStay
  BY <1>2, <1>5 DEF RunsStay, InFlightRun
<1>9. AttemptsStay
  BY <1>1, <1>2, <1>5, <1>7 DEF AttemptsStay, Busy, At, Live
<1>10. LinksStay
  BY <1>2, <1>5, <1>6 DEF LinksStay, Pledged
<1>11. ApartStays
  <2>1. inferring \subseteq Jobs
    BY DEF Inv, ContainersOK
  <2> QED
    BY <1>2, <1>5, <1>6, <2>1 DEF ApartStays, InFlightRun, OneEach, Apart, JobTerminal
<1> QED
  BY <1>8, <1>9, <1>10, <1>11, AllKept

LEMMA WatchOneEach ==
  ASSUME Inv, Carried, OneEach, Watch \/ WatcherDies
  PROVE  OneEach'
<1>1. CASE Conclude \/ ConcludeExhausted
  <2>1. PICK t \in Trainings : t = watch.of
    BY <1>1 DEF Conclude, ConcludeExhausted, Inv, HasRun
  <2>2. Idle(t) /\ training[t].status # "absent"
    BY <1>1, <2>1, WatchedIsIdle DEF Conclude, ConcludeExhausted
  <2>3. UNCHANGED <<worker, execs, inferring, poisoned>> /\ watch'.verdict = "none"
    BY <1>1 DEF Conclude, ConcludeExhausted, WatcherOnly, Done, NoWatch
  <2>4. Idle(t)'
    BY <2>2, <2>3 DEF Idle, Busy, Live, ExecIds, Of
  <2>5. CASE Conclude
    <3>1. Finish(t, watch.verdict = "ok") /\ (watch.verdict = "ok") \in BOOLEAN
      BY <2>1, <2>5 DEF Conclude
    <3>2. \E ok \in BOOLEAN : Finish(t, ok)
      BY <3>1
    <3> QED
      BY <2>2, <2>3, <2>4, <3>2, FinishOneEach
  <2>6. CASE ConcludeExhausted
    <3>1. \E lora \in {"ready", "failed"} : FinishUnswept(t, lora)
      BY <2>1, <2>6 DEF ConcludeExhausted
    <3> QED
      BY <2>2, <2>3, <2>4, <3>1, FinishOneEach
  <2> QED
    BY <1>1, <2>5, <2>6
<1>2. CASE AlreadyHandled \/ NoRetry \/ WatcherDies
  <2>1. UNCHANGED <<account, job, training, worker, execs, inferring, poisoned>>
        /\ ExecIds' = ExecIds
    BY <1>2 DEF AlreadyHandled, NoRetry, WatcherDies, WatcherOnly, ExecIds
  <2>2. \/ watch'.verdict = "none"
        \/ watch.verdict = "neverRan" /\ watch'.of = watch.of /\ watch'.exec = watch.exec
    <3>1. CASE NoRetry
      <4>1. watch' = [watch EXCEPT !.verdict = "spent"] /\ watch \in Sight
        BY <3>1 DEF NoRetry, Inv, WatcherOK
      <4> QED
        BY <3>1, <4>1 DEF Sight, NoRetry
    <3>2. CASE AlreadyHandled \/ WatcherDies
      BY <3>2 DEF AlreadyHandled, WatcherDies, Done, NoWatch
    <3> QED
      BY <1>2, <3>1, <3>2
  <2>3. RunsStay /\ ApartStays
    BY <2>1 DEF RunsStay, ApartStays, InFlightRun, OneEach, Apart
  <2>4. AttemptsStay /\ LinksStay
    <3>1. AttemptsStay
      BY <2>1, <2>2 DEF AttemptsStay, Busy, At, Live
    <3>2. LinksStay
      BY <2>1 DEF LinksStay, Pledged
    <3> QED
      BY <3>1, <3>2
  <2> QED
    BY <2>3, <2>4, AllKept
<1> QED
  BY <1>1, <1>2, RetryOneEach, ExhaustOneEach DEF Watch

LEMMA NextOneEach ==
  ASSUME Sober, Inv, Carried, OneEach, [Next]_vars
  PROVE  OneEach'
<1>1. ASSUME NEW j \in Jobs,
             Submit(j) \/ FailParked(j) \/ SkipParked(j) \/ Serve(j) \/ Infer(j) \/ Reap(j)
      PROVE  OneEach'
  BY <1>1, SubmitOneEach, JobsOneEach
<1>2. ASSUME NEW t \in Trainings,
             \/ Poison(t) \/ Look(t) \/ Age(t)
             \/ \E force \in BOOLEAN : StartTraining(t, force)
      PROVE  OneEach'
  <2>1. ~Poison(t)
    BY DEF Poison, OneEach, OneRun
  <2> QED
    BY <1>2, <2>1, LookOneEach, StartTrainingOneEach
<1>3. ~(DeleteAdapter \/ ResetModel \/ Retire)
  BY SoberFaults DEF DeleteAdapter, ResetModel, Retire
<1>4. ASSUME NEW i \in Items, Deliver(i) \/ DeliverTwice(i)
      PROVE  OneEach'
  BY <1>4, QuietOneEach DEF Deliver, DeliverTwice
<1>5. ASSUME NEW w \in Workers,
             \/ \E t \in Trainings : Receive(w, t)
             \/ Work(w) \/ Defer(w) \/ GiveUp(w) \/ Reject(w) \/ WorkerDies(w)
      PROVE  OneEach'
  <2>1. ~GiveUp(w)
    BY SoberFaults DEF GiveUp
  <2>2. CASE (\E t \in Trainings : Receive(w, t)) \/ Discard(w) \/ Defer(w) \/ WorkerDies(w)
    BY <2>2, RestOneEach
  <2>3. CASE Claim(w) \/ FuseNew(w) \/ FuseAgain(w) \/ TrainOnly(w)
    BY <2>3, ClaimOneEach, FuseNewOneEach, DispatchOneEach
  <2>4. CASE Start(w) \/ StartRaises(w) \/ Unclaim(w) \/ Revert(w) \/ Record(w) \/ Reject(w)
    BY <2>4, StartOneEach, DispatchOneEach, RevertOneEach, RecordOneEach, RejectOneEach
  <2> QED
    BY <1>5, <2>1, <2>2, <2>3, <2>4 DEF Work
<1>6. ASSUME NEW e \in ExecIds,
             Run(e) \/ NeverRuns(e) \/ TrainingFails(e) \/ GenerationFails(e) \/ Dies(e)
      PROVE  OneEach'
  BY <1>6, ContainerOneEach
<1>7. CASE Watch \/ WatcherDies
  BY <1>7, WatchOneEach
<1>8. CASE UNCHANGED vars
  BY <1>8, QuietOneEach DEF vars
<1> QED
  BY <1>1, <1>2, <1>3, <1>4, <1>5, <1>6, <1>7, <1>8 DEF Next

\* Where no run gets stuck, no reply of the start call is lost, no message is given up or
\* poisoned and the model is not deleted, a job is generated by one container at a time,
\* however many runs, retries, crashes and duplicates there are.
THEOREM OneGenerationAtATime ==
  ASSUME {"stuck", "replyLost", "reset", "retention", "giveUp", "poison"} \cap Faults = {}
  PROVE  Spec => []OneGeneration
<1>1. Inv /\ OneEach => OneGeneration
  BY OneEachSuffices
<1>2. Init => Inv /\ Carried /\ OneEach
  BY InitInv, InitCarried, InitOneEach
<1>3. Inv /\ Carried /\ OneEach /\ [Next]_vars => (Inv /\ Carried /\ OneEach)'
  BY NextInv, NextCarried, NextOneEach DEF Sober
<1> QED
  BY <1>1, <1>2, <1>3, PTL DEF Spec
=============================================================================

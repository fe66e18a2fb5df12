------------------------------ MODULE Training ------------------------------
(***************************************************************************)
(* One customer's account between submission and generation: the           *)
(* reservation of generation jobs and of training runs, the transactional  *)
(* outbox that carries their messages, the dispatch of a training run (and *)
(* of the one parked job it may be fused with), the containers it runs in, *)
(* the training watcher, and the release or the failure of the jobs that   *)
(* were parked until the customer's model was trained.                     *)
(*                                                                         *)
(* A step is one database transaction, or one call to the queue or Azure.  *)
(* The dispatch lease and the GPU cap are module Dispatch's: here a worker *)
(* may always be turned away. What happens to a queued job is module       *)
(* JobLifecycle's: here an inference container takes it to its end.        *)
(***************************************************************************)
EXTENDS Naturals, Sequences, FiniteSets

CONSTANTS
  Jobs,          \* generation jobs the customer may submit
  Trainings,     \* training runs the customer may start
  Workers,       \* concurrent invocations of process_training_job
  Credits,       \* the balance at the start
  DailyCap,      \* PER_USER_DAILY_CAP
  FreeRetrains,  \* FREE_RETRAINS
  MaxExecutions, \* MAX_PROVISIONING_EXECUTIONS
  MaxStarts,     \* bound: training containers the model may start
  MaxMessages,   \* bound: visible copies of one message
  None,          \* no job, no training, no execution
  Faults         \* which of FaultKinds may happen

FaultKinds == {
  "resend",         \* an outbox row is sent and not marked
  "dbFails",        \* the claim of a parked job, or its undoing, raises
  "crash",          \* a worker or the watcher dies
  "sweepFails",     \* a parked job to be failed is skipped
  "busy",           \* no lease, or the GPU cap is reached
  "giveUp",         \* too many deferrals, or a dispatch config error
  "startFails",     \* begin_start raises, nothing was submitted
  "replyLost",      \* begin_start was submitted, but the call raises
  "badFiles",       \* trigger_training_job refuses the photo paths
  "poison",         \* a message fails for the third time
  "trainFails",     \* the trainer exits with an error
  "generateFails",  \* the generation phase, or an inference container, fails
  "killed",         \* a container dies without writing
  "provisionFails", \* Azure fails the replica before the container starts
  "noEvidence",     \* an execution cannot be classified
  "probeFails",     \* blob storage does not say whether there is an adapter
  "stuck",          \* a run gets older than TRAINING_STUCK_MINUTES
  "reset",          \* the customer deletes the model
  "retention" }     \* the retention window of an idle account ends

ASSUME TrainingConstants ==
  /\ IsFiniteSet(Jobs) /\ IsFiniteSet(Trainings)
  /\ Credits \in Nat /\ DailyCap \in Nat /\ FreeRetrains \in Nat
  /\ MaxExecutions \in Nat \ {0}
  /\ MaxStarts \in Nat /\ MaxMessages \in Nat \ {0}
  /\ None \notin Jobs \cup Trainings \cup Nat
  /\ Faults \subseteq FaultKinds

\* Generation jobs and training runs have ids of their own and queues of their own.
ASSUME SeparateQueues == Jobs \cap Trainings = {}

VARIABLES
  account,   \* the users row (lora_status, retrain_count, balance) and the adapter blob
  job,       \* status of every jobs row
  training,  \* the lora_trainings rows
  owed,      \* outbox rows of every job and every training run still to be sent
  queue,     \* visible messages of every job and every training run
  poisoned,  \* trainings with a message in the poison queue
  worker,    \* the invocations of process_training_job
  execs,     \* training containers in start order
  inferring, \* jobs an inference container is working on
  watch,     \* the training the watcher is handling, and what it saw
  doomed     \* parked jobs that a finished training run is still to fail

vars == <<account, job, training, owed, queue, poisoned, worker,
          execs, inferring, watch, doomed>>

Items == Jobs \cup Trainings
JobTerminal == {"completed", "failed"}
InFlight == {"queued", "dispatching", "training"}

\* Statuses a job is counted under when the daily cap is checked.
CapStatuses == {"queued", "processing", "completed"}

\* Container phases; a container in its last four has ended.
Ended == {"succeeded", "failed", "neverRan"}
ExecIds == 1..Len(execs)
Live(e) == execs[e].phase \notin Ended

NoRow == [status |-> "absent", exec |-> None, fused |-> None, charge |-> 0,
          history |-> {}]
Resting == [pc |-> "idle", of |-> None, fused |-> None, exec |-> None]
NoWatch == [of |-> None, exec |-> None, verdict |-> "none"]

Init ==
  /\ account = [lora |-> "none", retrains |-> 0, balance |-> Credits, adapter |-> FALSE]
  /\ job = [j \in Jobs |-> "absent"]
  /\ training = [t \in Trainings |-> NoRow]
  /\ owed = [i \in Items |-> 0]
  /\ queue = [i \in Items |-> 0]
  /\ poisoned = {}
  /\ worker = [w \in Workers |-> Resting]
  /\ execs = <<>>
  /\ inferring = {}
  /\ watch = NoWatch
  /\ doomed = {}

-----------------------------------------------------------------------------
(* The outbox, as module AtLeastOnce has it and module Outbox implements   *)
(* it: what a transaction owes is sent once or more after it commits.      *)

\* outbox_add of a message for each of some items.
Owe(items) == owed' = [i \in Items |-> owed[i] + IF i \in items THEN 1 ELSE 0]

Enqueue(i) == queue[i] < MaxMessages /\ queue' = [queue EXCEPT ![i] = @ + 1]

\* A row is sent and marked.
Deliver(i) ==
  /\ owed[i] > 0
  /\ Enqueue(i)
  /\ owed' = [owed EXCEPT ![i] = @ - 1]
  /\ UNCHANGED <<account, job, training, poisoned, worker, execs, inferring, watch,
                 doomed>>

\* A row is sent and will be sent again.
DeliverTwice(i) ==
  /\ "resend" \in Faults /\ owed[i] > 0
  /\ Enqueue(i)
  /\ UNCHANGED <<account, job, training, owed, poisoned, worker, execs, inferring,
                 watch, doomed>>

-----------------------------------------------------------------------------
(* The API.                                                                *)

InStatus(s) == {j \in Jobs : job[j] \in s}

\* reserve_job_slot: model ready, or in training; enough credits; the daily cap.
\* A queued job gets its message in the same transaction, a parked one gets none.
Submit(j) ==
  /\ job[j] = "absent"
  /\ account.lora \in {"ready", "training"}
  /\ account.balance >= 1
  /\ Cardinality(InStatus(CapStatuses)) < DailyCap
  /\ account' = [account EXCEPT !.balance = @ - 1]
  /\ IF account.lora = "ready"
     THEN job' = [job EXCEPT ![j] = "queued"] /\ Owe({j})
     ELSE job' = [job EXCEPT ![j] = "waiting_lora"] /\ UNCHANGED owed
  /\ UNCHANGED <<training, queue, poisoned, worker, execs, inferring, watch, doomed>>

\* reserve_training_slot: no run in progress; a trained model is only replaced on
\* request (force), and a replacement beyond the free ones costs a credit.
StartTraining(t, force) ==
  /\ training[t].status = "absent"
  /\ account.lora # "training"
  /\ account.lora = "ready" => force
  /\ LET retrain == force /\ account.lora \in {"ready", "failed"}
         charge == IF retrain /\ account.retrains >= FreeRetrains THEN 1 ELSE 0
     IN
       /\ account.balance >= charge
       /\ training' = [training EXCEPT ![t].status = "queued", ![t].charge = charge]
       /\ account' = [account EXCEPT !.lora = "training", !.balance = @ - charge,
                        !.retrains = IF retrain THEN @ + 1 ELSE @]
  /\ Owe({t})
  /\ UNCHANGED <<job, queue, poisoned, worker, execs, inferring, watch, doomed>>

\* delete_user_model removes the adapter's blobs (an error in doing so is swallowed), and
\* then resets the row.
DeleteAdapter ==
  /\ "reset" \in Faults /\ account.adapter
  /\ account' = [account EXCEPT !.adapter = FALSE]
  /\ UNCHANGED <<job, training, owed, queue, poisoned, worker, execs,
                 inferring, watch, doomed>>

ResetModel ==
  /\ "reset" \in Faults
  /\ account' = [account EXCEPT !.lora = "none", !.retrains = 0]
  /\ UNCHANGED <<job, training, owed, queue, poisoned, worker, execs,
                 inferring, watch, doomed>>

\* retention_cleanup, under a lock on the row, once there is neither credit nor job left.
Retire ==
  /\ "retention" \in Faults
  /\ account.balance = 0
  /\ \A j \in Jobs : job[j] \in JobTerminal \cup {"absent"}
  /\ \E left \in {FALSE, account.adapter} :
       account' = [account EXCEPT !.lora = "none", !.adapter = left]
  /\ UNCHANGED <<job, training, owed, queue, poisoned, worker, execs,
                 inferring, watch, doomed>>

-----------------------------------------------------------------------------
(* The end of a training run.                                              *)

\* terminalize_and_refund: guarded by the transition.
FailJob(j) ==
  IF job[j] \in JobTerminal THEN UNCHANGED <<job, account>>
  ELSE /\ job' = [job EXCEPT ![j] = "failed"]
       /\ account' = [account EXCEPT !.balance = @ + 1]

\* Mutated form of Probe: an unreachable storage counts as an adapter.
ProbeOpen == {account.adapter} \cup (IF "probeFails" \in Faults THEN {TRUE} ELSE {})

\* What the blob probe after a failed run finds: an unreachable storage counts as nothing.
Probe == {account.adapter} \cup (IF "probeFails" \in Faults THEN {FALSE} ELSE {})

\* Mutated form of Settle: jobs are released without their messages.
SettleSilently(t, ok, lora, usable, parked) ==
  /\ training' = [training EXCEPT ![t].status = IF ok THEN "completed" ELSE "failed"]
  /\ account' = [account EXCEPT !.lora = lora,
                   !.balance = IF ok THEN @ ELSE @ + training[t].charge]
  /\ UNCHANGED owed
  /\ IF usable /\ parked # {}
     THEN /\ job' = [j \in Jobs |-> IF j \in parked THEN "queued" ELSE job[j]]
          /\ UNCHANGED doomed
     ELSE /\ doomed' = doomed \cup parked
          /\ UNCHANGED job

\* Mutated form of Settle: without a model the parked jobs are forgotten.
SettleForgets(t, ok, lora, usable, parked) ==
  /\ training' = [training EXCEPT ![t].status = IF ok THEN "completed" ELSE "failed"]
  /\ account' = [account EXCEPT !.lora = lora,
                   !.balance = IF ok THEN @ ELSE @ + training[t].charge]
  /\ IF usable /\ parked # {}
     THEN /\ job' = [j \in Jobs |-> IF j \in parked THEN "queued" ELSE job[j]]
          /\ Owe(parked)
     ELSE UNCHANGED <<job, owed>>
  /\ UNCHANGED doomed

\* The transaction of _finish_training, for a run that is not yet terminal. The parked
\* jobs are released in it if there is a usable model, and failed after it otherwise.
Settle(t, ok, lora, usable, parked) ==
  /\ training' = [training EXCEPT ![t].status = IF ok THEN "completed" ELSE "failed"]
  /\ account' = [account EXCEPT !.lora = lora,
                   !.balance = IF ok THEN @ ELSE @ + training[t].charge]
  /\ IF usable /\ parked # {}
     THEN /\ job' = [j \in Jobs |-> IF j \in parked THEN "queued" ELSE job[j]]
          /\ Owe(parked)
          /\ UNCHANGED doomed
     ELSE /\ doomed' = doomed \cup parked
          /\ UNCHANGED <<job, owed>>

\* Mutated form of Finish: a run that has ended is finished again.
FinishAgain(t, ok) ==
  \E found \in Probe :
    LET usable == ok \/ found IN
    Settle(t, ok, IF usable THEN "ready" ELSE "failed", usable, InStatus({"waiting_lora"}))

\* _finish_training as the watcher, a worker or the poison handler calls it.
Finish(t, ok) ==
  IF training[t].status \in {"completed", "failed"}
  THEN UNCHANGED <<account, job, training, owed, doomed>>
  ELSE \E found \in Probe :
         LET usable == ok \/ found IN
         Settle(t, ok, IF usable THEN "ready" ELSE "failed", usable,
                InStatus({"waiting_lora"}))

\* _finish_training after a run that never reached its container: the jobs parked
\* behind it are left parked.
FinishUnswept(t, lora) ==
  IF training[t].status \in {"completed", "failed"}
  THEN UNCHANGED <<account, job, training, owed, doomed>>
  ELSE Settle(t, FALSE, lora, FALSE, {})

\* _mark_failed of a parked job, after the commit.
FailParked(j) ==
  /\ j \in doomed
  /\ doomed' = doomed \ {j}
  /\ FailJob(j)
  /\ UNCHANGED <<training, owed, queue, poisoned, worker, execs, inferring,
                 watch>>

\* _mark_failed raised and the loop went on, or the process died.
SkipParked(j) ==
  /\ "sweepFails" \in Faults /\ j \in doomed
  /\ doomed' = doomed \ {j}
  /\ UNCHANGED <<account, job, training, owed, queue, poisoned, worker,
                 execs, inferring, watch>>

-----------------------------------------------------------------------------
(* process_training_job.                                                   *)

Go(w, step) == worker' = [worker EXCEPT ![w].pc = step]
Rest(w) == worker' = [worker EXCEPT ![w] = Resting]
At(w, step) == worker[w].pc = step
Of(w) == worker[w].of

Receive(w, t) ==
  /\ At(w, "idle") /\ queue[t] > 0
  /\ queue' = [queue EXCEPT ![t] = @ - 1]
  /\ worker' = [worker EXCEPT ![w] = [Resting EXCEPT !.pc = "held", !.of = t]]
  /\ UNCHANGED <<account, job, training, owed, poisoned, execs, inferring,
                 watch, doomed>>

\* The message goes back to the queue.
Return(w) == Rest(w) /\ queue' = [queue EXCEPT ![Of(w)] = @ + 1]

\* A run that was started, is being started or has ended is not started again.
Discard(w) ==
  /\ At(w, "held")
  /\ training[Of(w)].status # "queued" \/ training[Of(w)].exec # None
  /\ Rest(w)
  /\ UNCHANGED <<account, job, training, owed, queue, poisoned, execs,
                 inferring, watch, doomed>>

Defer(w) ==
  /\ "busy" \in Faults /\ At(w, "held")
  /\ Return(w)
  /\ UNCHANGED <<account, job, training, owed, poisoned, execs, inferring,
                 watch, doomed>>

GiveUp(w) ==
  /\ "giveUp" \in Faults /\ At(w, "held")
  /\ Finish(Of(w), FALSE)
  /\ Rest(w)
  /\ UNCHANGED <<queue, poisoned, execs, inferring, watch>>

Claim(w) ==
  /\ At(w, "held")
  /\ training[Of(w)].status = "queued" /\ training[Of(w)].exec = None
  /\ training' = [training EXCEPT ![Of(w)].status = "dispatching"]
  /\ Go(w, "fuse")
  /\ UNCHANGED <<account, job, owed, queue, poisoned, execs, inferring,
                 watch, doomed>>

\* Go on to the start call, with a claimed job or with none.
Bind(w, j) == worker' = [worker EXCEPT ![w].pc = "start", ![w].fused = j]

Linked(j) == \E t \in Trainings : training[t].fused = j

\* Mutated form of FuseNew: the fused job is left parked.
FuseNewUnclaimed(w) ==
  /\ At(w, "fuse") /\ training[Of(w)].fused = None
  /\ \E j \in InStatus({"waiting_lora"}) :
       /\ ~Linked(j)
       /\ training' = [training EXCEPT ![Of(w)].fused = j]
       /\ Bind(w, j)
  /\ UNCHANGED <<account, job, owed, queue, poisoned, execs, inferring, watch, doomed>>

\* allocate_fused_job, first dispatch: claim a parked job and record the link; a job
\* another run is linked to violates the unique index, and the claim is rolled back.
FuseNew(w) ==
  /\ At(w, "fuse") /\ training[Of(w)].fused = None
  /\ \E j \in InStatus({"waiting_lora"}) :
       /\ ~Linked(j)
       /\ job' = [job EXCEPT ![j] = "processing"]
       /\ training' = [training EXCEPT ![Of(w)].fused = j]
       /\ Bind(w, j)
  /\ UNCHANGED <<account, owed, queue, poisoned, execs, inferring, watch,
                 doomed>>

\* allocate_fused_job, later dispatches: the recorded job or none.
FuseAgain(w) ==
  /\ At(w, "fuse") /\ training[Of(w)].fused # None
  /\ LET j == training[Of(w)].fused IN
       /\ job[j] \in {"processing", "waiting_lora"}
       /\ job' = [job EXCEPT ![j] = "processing"]
       /\ Bind(w, j)
  /\ UNCHANGED <<account, training, owed, queue, poisoned, execs, inferring,
                 watch, doomed>>

\* MODE=train: nothing to fuse with, a link that cannot be used, or the claim raised.
TrainOnly(w) ==
  /\ At(w, "fuse")
  /\ LET link == training[Of(w)].fused
         parked == InStatus({"waiting_lora"})
     IN
       \/ "dbFails" \in Faults
       \/ link = None /\ (parked = {} \/ \E j \in parked : Linked(j))
       \/ link # None /\ job[link] \notin {"processing", "waiting_lora"}
  /\ Bind(w, None)
  /\ UNCHANGED <<account, job, training, owed, queue, poisoned, execs,
                 inferring, watch, doomed>>

\* An execution of the run a worker is starting.
Launch(w) ==
  /\ Len(execs) < MaxStarts
  /\ execs' = Append(execs, [of |-> Of(w), fused |-> worker[w].fused, phase |-> "training"])

Start(w) ==
  /\ At(w, "start")
  /\ Launch(w)
  /\ worker' = [worker EXCEPT ![w].pc = "record", ![w].exec = Len(execs) + 1]
  /\ UNCHANGED <<account, job, training, owed, queue, poisoned, inferring,
                 watch, doomed>>

\* trigger_training_job raises, before or after the execution was submitted.
StartRaises(w) ==
  /\ At(w, "start")
  /\ \/ {"startFails", "badFiles"} \cap Faults # {} /\ UNCHANGED execs
     \/ "replyLost" \in Faults /\ Launch(w)
  /\ Go(w, IF worker[w].fused = None THEN "revert" ELSE "unclaim")
  /\ UNCHANGED <<account, job, training, owed, queue, poisoned, inferring,
                 watch, doomed>>

\* The fused job is parked again; an error in doing so is swallowed.
Unclaim(w) ==
  /\ At(w, "unclaim")
  /\ Go(w, "revert")
  /\ LET j == worker[w].fused IN
     \/ job' = [job EXCEPT ![j] = IF @ = "processing" THEN "waiting_lora" ELSE @]
     \/ "dbFails" \in Faults /\ UNCHANGED job
  /\ UNCHANGED <<account, training, owed, queue, poisoned, execs, inferring,
                 watch, doomed>>

\* Mutated form of Revert: the invocation does not raise and its message is gone.
RevertSwallowed(w) ==
  /\ At(w, "revert")
  /\ training' = [training EXCEPT ![Of(w)].status =
                    IF @ = "dispatching" THEN "queued" ELSE @]
  /\ Rest(w)
  /\ UNCHANGED <<account, job, owed, queue, poisoned, execs, inferring, watch, doomed>>

\* The run is queued again and the invocation raises: its message is redelivered, or
\* after its third failure moved to the poison queue.
Revert(w) ==
  /\ At(w, "revert")
  /\ training' = [training EXCEPT ![Of(w)].status =
                    IF @ = "dispatching" THEN "queued" ELSE @]
  /\ \/ Return(w) /\ UNCHANGED poisoned
     \/ "poison" \in Faults /\ poisoned' = poisoned \cup {Of(w)} /\ Rest(w)
          /\ UNCHANGED queue
  /\ UNCHANGED <<account, job, owed, execs, inferring, watch, doomed>>

\* The photo paths were refused: the run can never start.
Reject(w) ==
  /\ "badFiles" \in Faults /\ At(w, "revert")
  /\ Finish(Of(w), FALSE)
  /\ Rest(w)
  /\ UNCHANGED <<queue, poisoned, execs, inferring, watch>>

\* record_execution_id fills an empty slot and replaces nothing.
Record(w) ==
  /\ At(w, "record")
  /\ training' = [training EXCEPT ![Of(w)] =
       IF @.status = "dispatching" /\ @.exec = None
       THEN [@ EXCEPT !.status = "training", !.exec = worker[w].exec] ELSE @]
  /\ Rest(w)
  /\ UNCHANGED <<account, job, owed, queue, poisoned, execs, inferring,
                 watch, doomed>>

WorkerDies(w) ==
  /\ "crash" \in Faults /\ ~At(w, "idle")
  /\ \/ Return(w) /\ UNCHANGED poisoned
     \/ "poison" \in Faults /\ poisoned' = poisoned \cup {Of(w)} /\ Rest(w)
          /\ UNCHANGED queue
  /\ UNCHANGED <<account, job, training, owed, execs, inferring, watch,
                 doomed>>

\* handle_poison_training.
Poison(t) ==
  /\ t \in poisoned
  /\ poisoned' = poisoned \ {t}
  /\ Finish(t, FALSE)
  /\ UNCHANGED <<queue, worker, execs, inferring, watch>>

-----------------------------------------------------------------------------
(* The containers.                                                         *)

Phase(e, p) == execs' = [execs EXCEPT ![e].phase = p]

\* main.py overwrites every status but a terminal one.
Write(j, s) == job' = [job EXCEPT ![j] = IF @ \in JobTerminal THEN @ ELSE s]

ContainerOnly ==
  UNCHANGED <<training, owed, queue, poisoned, worker, watch, doomed>>

\* The replica is never backed: nothing in it ran.
NeverRuns(e) ==
  /\ "provisionFails" \in Faults /\ execs[e].phase = "training"
  /\ Phase(e, "neverRan")
  /\ UNCHANGED <<account, job, inferring>> /\ ContainerOnly

\* The adapter is uploaded at the very end of the training.
Trained(e) ==
  /\ execs[e].phase = "training"
  /\ Phase(e, IF execs[e].fused = None THEN "succeeded" ELSE "trained")
  /\ account' = [account EXCEPT !.adapter = TRUE]
  /\ UNCHANGED <<job, inferring>> /\ ContainerOnly

TrainingFails(e) ==
  /\ "trainFails" \in Faults /\ execs[e].phase = "training"
  /\ Phase(e, "failed")
  /\ UNCHANGED <<account, job, inferring>> /\ ContainerOnly

\* The second phase of a fused container: main.py leaves a terminal job alone.
Generate(e) ==
  /\ execs[e].phase = "trained"
  /\ Phase(e, IF job[execs[e].fused] \in JobTerminal THEN "succeeded" ELSE "generating")
  /\ Write(execs[e].fused, "processing")
  /\ UNCHANGED <<account, inferring>> /\ ContainerOnly

Generated(e) ==
  /\ execs[e].phase = "generating"
  /\ Phase(e, "succeeded")
  /\ Write(execs[e].fused, "completed")
  /\ UNCHANGED <<account, inferring>> /\ ContainerOnly

GenerationFails(e) ==
  /\ "generateFails" \in Faults /\ execs[e].phase = "generating"
  /\ Phase(e, "failed")
  /\ FailJob(execs[e].fused)
  /\ UNCHANGED inferring /\ ContainerOnly

\* A container dies without writing anything.
Dies(e) ==
  /\ "killed" \in Faults /\ Live(e)
  /\ Phase(e, "failed")
  /\ UNCHANGED <<account, job, inferring>> /\ ContainerOnly

\* A message of a generation job: module Dispatch starts a container for a queued
\* job and drops the message otherwise.
Serve(j) ==
  /\ queue[j] > 0
  /\ queue' = [queue EXCEPT ![j] = @ - 1]
  /\ IF job[j] = "queued"
     THEN Write(j, "processing") /\ inferring' = inferring \cup {j}
     ELSE UNCHANGED <<job, inferring>>
  /\ UNCHANGED <<account, training, owed, poisoned, worker, execs, watch,
                 doomed>>

\* Module JobLifecycle takes the job to an end.
Infer(j) ==
  /\ j \in inferring
  /\ inferring' = inferring \ {j}
  /\ \/ Write(j, "completed") /\ UNCHANGED account
     \/ "generateFails" \in Faults /\ FailJob(j)
  /\ UNCHANGED execs /\ ContainerOnly

\* The reaper's safety net: a job that stays 'processing' with nobody working on it.
Reap(j) ==
  /\ job[j] = "processing" /\ j \notin inferring
  /\ \A e \in ExecIds : execs[e].fused = j => ~Live(e)
  /\ \A w \in Workers : worker[w].fused # j
  /\ FailJob(j)
  /\ UNCHANGED <<training, owed, queue, poisoned, worker, execs, inferring,
                 watch, doomed>>

-----------------------------------------------------------------------------
(* The training watcher, one training at a time.                           *)

Sees(t, v) == watch' = [of |-> t, exec |-> training[t].exec, verdict |-> v]
Done == watch' = NoWatch

WatcherOnly == UNCHANGED <<queue, poisoned, worker, execs, inferring>>

\* What the watcher may conclude from an execution it sees in some phase.
Verdicts(phase) ==
  CASE phase = "succeeded" -> {"ok"}
    [] phase = "failed" -> {"failed"}
    [] phase = "neverRan" ->
         {"neverRan"} \cup (IF "noEvidence" \in Faults THEN {"failed"} ELSE {})
    [] OTHER -> {}

\* The row is read, then its execution's status, and nothing is locked.
Look(t) ==
  /\ watch = NoWatch
  /\ training[t].status \in {"dispatching", "training"}
  /\ training[t].exec # None
  /\ \E v \in Verdicts(execs[training[t].exec].phase) : Sees(t, v)
  /\ UNCHANGED <<account, job, training, owed, doomed>> /\ WatcherOnly

\* The age of the run decides before anything else, whatever its execution does.
Age(t) ==
  /\ "stuck" \in Faults
  /\ watch = NoWatch
  /\ training[t].status \in {"dispatching", "training"}
  /\ Sees(t, "failed")
  /\ UNCHANGED <<account, job, training, owed, doomed>> /\ WatcherOnly

Conclude ==
  /\ watch.verdict \in {"ok", "failed"}
  /\ Finish(watch.of, watch.verdict = "ok")
  /\ Done
  /\ WatcherOnly

Current == training[watch.of].exec = watch.exec

\* plan_attempt leaves room for another execution.
BudgetLeft == Cardinality(training[watch.of].history \cup {watch.exec}) < MaxExecutions

\* The linked job of a run that never ran can be parked again.
Reclaimable(j) == job[j] = "processing"

\* Mutated form of Retry: the retried run is put back without a message.
RetrySilently ==
  /\ watch.verdict = "neverRan" /\ Current
  /\ LET row == training[watch.of] IN
       /\ row.status \in InFlight
       /\ watch.exec \notin row.history
       /\ BudgetLeft
       /\ row.fused # None => Reclaimable(row.fused)
       /\ training' = [training EXCEPT ![watch.of].status = "queued", ![watch.of].exec = None,
                         ![watch.of].history = @ \cup {watch.exec}]
       /\ job' = IF row.fused = None THEN job
                 ELSE [job EXCEPT ![row.fused] = "waiting_lora"]
  /\ Done
  /\ UNCHANGED <<account, owed, doomed>> /\ WatcherOnly

\* Mutated form of Retry: the next dispatch may fuse another job.
RetryUnlinked ==
  /\ watch.verdict = "neverRan" /\ Current
  /\ LET row == training[watch.of] IN
       /\ row.status \in InFlight
       /\ watch.exec \notin row.history
       /\ BudgetLeft
       /\ row.fused # None => Reclaimable(row.fused)
       /\ training' = [training EXCEPT ![watch.of].status = "queued", ![watch.of].exec = None,
                         ![watch.of].fused = None, ![watch.of].history = @ \cup {watch.exec}]
       /\ job' = IF row.fused = None THEN job
                 ELSE [job EXCEPT ![row.fused] = "waiting_lora"]
  /\ Owe({watch.of})
  /\ Done
  /\ UNCHANGED <<account, doomed>> /\ WatcherOnly

\* retry_fused_training: job, run, history and message in one transaction.
Retry ==
  /\ watch.verdict = "neverRan" /\ Current
  /\ LET row == training[watch.of] IN
       /\ row.status \in InFlight
       /\ watch.exec \notin row.history
       /\ BudgetLeft
       /\ row.fused # None => Reclaimable(row.fused)
       /\ training' = [training EXCEPT ![watch.of].status = "queued", ![watch.of].exec = None,
                         ![watch.of].history = @ \cup {watch.exec}]
       /\ job' = IF row.fused = None THEN job
                 ELSE [job EXCEPT ![row.fused] = "waiting_lora"]
  /\ Owe({watch.of})
  /\ Done
  /\ UNCHANGED <<account, doomed>> /\ WatcherOnly

\* The execution was handled before, or is no longer the run's.
AlreadyHandled ==
  /\ watch.verdict = "neverRan"
  /\ \/ ~Current
     \/ training[watch.of].status \notin InFlight
     \/ watch.exec \in training[watch.of].history
  /\ Done
  /\ UNCHANGED <<account, job, training, owed, doomed>> /\ WatcherOnly

\* retry_fused_training plans no further execution: the budget is spent, or the linked job
\* cannot be parked again.
NoRetry ==
  /\ watch.verdict = "neverRan" /\ Current
  /\ LET row == training[watch.of] IN
       /\ row.status \in InFlight
       /\ watch.exec \notin row.history
       /\ ~BudgetLeft \/ (row.fused # None /\ ~Reclaimable(row.fused))
  /\ watch' = [watch EXCEPT !.verdict = "spent"]
  /\ UNCHANGED <<account, job, training, owed, doomed>> /\ WatcherOnly

\* The linked job alone is failed, in a transaction of its own, whatever the run's status.
Exhaust ==
  /\ watch.verdict = "spent"
  /\ training' = IF Current
                 THEN [training EXCEPT ![watch.of].history = @ \cup {watch.exec}]
                 ELSE training
  /\ LET link == training[watch.of].fused IN
       IF link # None /\ Reclaimable(link)
       THEN FailJob(link) ELSE UNCHANGED <<job, account>>
  /\ watch' = [watch EXCEPT !.verdict = "exhausted"]
  /\ UNCHANGED <<owed, doomed>> /\ WatcherOnly

\* The run is failed afterwards; the model the customer had stays usable.
ConcludeExhausted ==
  /\ watch.verdict = "exhausted"
  /\ \E known \in BOOLEAN :
       /\ ~known => "probeFails" \in Faults
       /\ LET usable == IF known THEN account.adapter
                        ELSE \E t \in Trainings : training[t].status = "completed"
          IN FinishUnswept(watch.of, IF usable THEN "ready" ELSE "failed")
  /\ Done
  /\ WatcherOnly

WatcherDies ==
  /\ "crash" \in Faults /\ watch # NoWatch
  /\ Done
  /\ UNCHANGED <<account, job, training, owed, doomed>> /\ WatcherOnly

-----------------------------------------------------------------------------
Work(w) ==
  \/ Discard(w) \/ Claim(w) \/ FuseNew(w) \/ FuseAgain(w) \/ TrainOnly(w)
  \/ Start(w) \/ StartRaises(w) \/ Unclaim(w) \/ Revert(w) \/ Record(w)

Run(e) == Trained(e) \/ Generate(e) \/ Generated(e)

Watch ==
  Conclude \/ Retry \/ AlreadyHandled \/ NoRetry \/ Exhaust \/ ConcludeExhausted

Next ==
  \/ \E j \in Jobs : Submit(j) \/ FailParked(j) \/ SkipParked(j) \/ Serve(j)
                     \/ Infer(j) \/ Reap(j)
  \/ \E t \in Trainings : Poison(t) \/ Look(t) \/ Age(t)
                          \/ (\E force \in BOOLEAN : StartTraining(t, force))
  \/ DeleteAdapter \/ ResetModel \/ Retire
  \/ \E i \in Items : Deliver(i) \/ DeliverTwice(i)
  \/ \E w \in Workers :
       \/ \E t \in Trainings : Receive(w, t)
       \/ Work(w) \/ Defer(w) \/ GiveUp(w) \/ Reject(w) \/ WorkerDies(w)
  \/ \E e \in ExecIds : Run(e) \/ NeverRuns(e) \/ TrainingFails(e) \/ GenerationFails(e)
                        \/ Dies(e)
  \/ Watch \/ WatcherDies

Spec == Init /\ [][Next]_vars

\* Processes proceed and do not die again and again forever, the outbox and the host
\* deliver messages, containers end, the timers fire, and each tick of the watcher visits
\* every run in flight, whose age is what it looks at first.
Fairness ==
  /\ \A i \in Items : SF_vars(Deliver(i))
  /\ \A w \in Workers :
       SF_vars(Work(w)) /\ WF_vars(\E t \in Trainings : Receive(w, t))
  /\ \A e \in 1..MaxStarts : WF_vars(e \in ExecIds /\ Run(e))
  /\ \A j \in Jobs :
       WF_vars(FailParked(j)) /\ WF_vars(Serve(j)) /\ WF_vars(Infer(j)) /\ WF_vars(Reap(j))
  /\ \A t \in Trainings : WF_vars(Poison(t)) /\ SF_vars(Look(t)) /\ SF_vars(Age(t))
  /\ WF_vars(Watch)

FairSpec == Spec /\ Fairness

-----------------------------------------------------------------------------
(* Properties.                                                             *)

\* Every variable has the type its rows, processes and messages give it.
TypeOK ==
  /\ account \in [lora : {"none", "training", "ready", "failed"}, retrains : Nat,
                  balance : Nat, adapter : BOOLEAN]
  /\ job \in [Jobs -> {"absent", "waiting_lora", "queued", "processing"} \cup JobTerminal]
  /\ training \in [Trainings ->
       [status : {"absent", "completed", "failed"} \cup InFlight,
        exec : ExecIds \cup {None}, fused : Jobs \cup {None}, charge : {0, 1},
        history : SUBSET ExecIds]]
  /\ owed \in [Items -> Nat]
  /\ queue \in [Items -> Nat] /\ poisoned \subseteq Trainings
  /\ worker \in [Workers ->
       [pc : {"idle", "held", "fuse", "start", "unclaim", "revert", "record"},
        of : Trainings \cup {None}, fused : Jobs \cup {None}, exec : ExecIds \cup {None}]]
  /\ execs \in Seq([of : Trainings, fused : Jobs \cup {None},
                    phase : {"training", "trained", "generating"} \cup Ended])
  /\ watch \in [of : Trainings \cup {None}, exec : ExecIds \cup {None},
                verdict : {"none", "ok", "failed", "neverRan", "spent", "exhausted"}]
  /\ inferring \subseteq Jobs /\ doomed \subseteq Jobs

\* A run that ended because Azure never backed it leaves the jobs behind it parked.
Exhausted ==
  \E t \in Trainings : /\ training[t].status = "failed" /\ training[t].exec # None
                       /\ execs[training[t].exec].phase = "neverRan"

\* A paid job is parked only while a training run that will release or fail it is in
\* flight, or while the run that ended is still failing it (the gate of submit_job and
\* the lock reserve_job_slot shares with _finish_training).
ParkedIsAwaited ==
  InStatus({"waiting_lora"}) # {} =>
    \/ \E t \in Trainings : training[t].status \in InFlight
    \/ InStatus({"waiting_lora"}) \subseteq doomed
    \/ Exhausted

\* No job is generated by two containers at a time, whether for inference or as the
\* second phase of a training (the claim of a parked job before its fused start).
OneGeneration ==
  \A j \in Jobs :
    Cardinality({e \in ExecIds : Live(e) /\ execs[e].fused = j})
      + (IF j \in inferring THEN 1 ELSE 0) <= 1

\* The message of a queued job or run is in the queue, with a worker, in the poison
\* queue, or in an outbox row still to be sent.
QueuedIsCarried ==
  /\ \A j \in Jobs : job[j] = "queued" => queue[j] > 0 \/ owed[j] > 0
  /\ \A t \in Trainings : training[t].status = "queued" =>
       \/ queue[t] > 0 \/ owed[t] > 0 \/ t \in poisoned
       \/ \E w \in Workers : Of(w) = t

\* Every credit is on the balance, in a job that was not refunded, or in a training
\* that was not refunded: nothing is charged or refunded twice.
CreditsConserved ==
  account.balance
    + Cardinality({j \in Jobs : job[j] \notin {"absent", "failed"}})
    + Cardinality({t \in Trainings : training[t].charge = 1 /\ training[t].status # "failed"})
    = Credits

\* A customer whose model is 'ready' has an adapter in blob storage.
ReadyHasAdapter == account.lora = "ready" => account.adapter

\* A run keeps the job it was first fused with (migration 034: a retry never takes
\* another one, and the link outlives the run).
FusedForGood ==
  [][\A t \in Trainings : training[t].fused # None => training'[t].fused = training[t].fused]_vars

\* Every submitted job is delivered or refunded, unless its run was exhausted.
EveryJobEnds ==
  \A j \in Jobs : job[j] # "absent" ~> (job[j] \in JobTerminal \/ Exhausted)

\* Every training run ends.
EveryRunEnds ==
  \A t \in Trainings :
    training[t].status # "absent" ~> training[t].status \in {"completed", "failed"}
=============================================================================

---------------------------- MODULE JobLifecycle ----------------------------
(***************************************************************************)
(* The life of one paid generation job, from the reservation of its        *)
(* credits to its terminal state and its refund: the job row as the        *)
(* dispatcher, the container, the reaper, the bounded provisioning retry,  *)
(* the orphan and corrupt-history policies, cancellation and the           *)
(* pending-refund compensator write it, one database transaction (or one   *)
(* call to Azure) per step.                                                *)
(*                                                                         *)
(* Module Dispatch is the dispatcher in detail; here an invocation is only *)
(* its claim, its start call and its writes to the row.                    *)
(***************************************************************************)
EXTENDS Naturals, Sequences, FiniteSets

CONSTANTS
  Workers,       \* concurrent invocations of process_inference_job
  Reapers,       \* concurrent ticks of the reaper
  MaxExecutions, \* MAX_PROVISIONING_EXECUTIONS
  MaxStarts,     \* bound: executions the model may start
  MaxMessages,   \* bound: copies of the job's message
  Fundings,      \* how the job was paid: a subset of FundingKinds
  Faults         \* which of FaultKinds may happen

FundingKinds == {"legacy", "one_time", "monthly", "organization"}

FaultKinds == {
  "crash",          \* a dispatcher invocation dies
  "startFails",     \* begin_start raises, nothing was submitted
  "replyLost",      \* begin_start was submitted, but the call raises
  "giveUp",         \* a message times out, is poisoned, or meets a config error
  "duplicate",      \* the message is delivered again
  "provisionFails", \* Azure fails the replica before the container starts
  "probeFails",     \* the GPU preflight exits 42, 43 or 44
  "appFails",       \* inference raises and the container writes 'failed'
  "killed",         \* the container dies without writing (OOM, replicaTimeout)
  "envLost",        \* the container starts without its JOB_ID and exits 1
  "preflightOnly",  \* PREFLIGHT_ONLY is set: it probes the GPU and exits 0
  "verdictLost",    \* the images are uploaded but 'completed' cannot be written
  "stall",          \* the replica is slow beyond the startup deadline
  "noTelemetry",    \* Log Analytics does not answer
  "apiFails",       \* ARM, or the storage listing, does not answer
  "targetMissing",  \* the balance row a refund goes to disappears or comes back
  "badEvidence",    \* job_params and the reserve ledger disagree
  "lapse",          \* the monthly subscription ends or is renewed
  "corruptHistory", \* provisioning_execution_ids becomes unreadable
  "cancel",         \* the user or an administrator cancels
  "adminRetry" }    \* an administrator retries a failed job

ASSUME LifecycleConstants ==
  /\ MaxExecutions \in Nat \ {0} /\ MaxStarts \in Nat /\ MaxMessages \in Nat
  /\ Fundings \subseteq FundingKinds /\ Faults \subseteq FaultKinds

VARIABLES
  job,       \* the row: status, execution id, provisioning columns and clocks
  params,    \* job_params._failure: the recorded class and the refund debt
  money,     \* what refunds restored to each balance, and job_refund ledger rows
  account,   \* how the job was paid, and what is true of the payer now
  messages,  \* copies of the job's message, in the queue or the outbox
  execs,     \* its executions in start order: the control plane's truth
  delivered, \* result images are in blob storage
  worker, reaper, canceller \* where each actor is, and what it carries

vars == <<job, params, money, account, messages, execs, delivered,
          worker, reaper, canceller>>

Terminal == {"completed", "failed"}
Statuses == {"queued", "dispatching", "processing"} \cup Terminal

\* Seconds since first_terminal_observed_at: NULL, below INGESTION_GRACE_S, below
\* MAX_OBSERVATION_S (the orphan ceiling too), above it.
Clocks == {"null", "fresh", "graced", "expired"}

\* Time since dispatched_at: up to REAPER_DISPATCHING_MINUTES, past it, past the
\* corrupt-history ceiling, past REAPER_STUCK_MINUTES.
Ages == 0..3

Buckets == {"aggregate", "monthly", "one_time", "member"}

\* The balances reserve_job_slot debited.
Charged(f) ==
  CASE f = "legacy"       -> {"aggregate"}
    [] f = "one_time"     -> {"aggregate", "one_time"}
    [] f = "monthly"      -> {"aggregate", "monthly", "one_time"}
    [] f = "organization" -> {"member"}

\* 'absent': there is no _failure object; 'blank': it has no class.
Classes == {"absent", "blank", "infra", "application", "operator_stopped",
            "pre_container", "stalled", "unclassified", "delivery_missing",
            "history_corrupt", "infra_timeout"}
Debts == {"none", "plan", "unresolved"}
Params == [class : Classes, debt : Debts]

Stages == {"hidden", "pulling", "booted", "running", "uploaded",
           "succeeded", "failed", "stopped"}
Ended  == {"succeeded", "failed", "stopped"}
Fates  == {"none", "pre_container", "probe", "container"}

WorkerSteps    == {"idle", "claimed", "started", "revert", "recover"}
CancellerSteps == {"idle", "stop", "fail", "done"}
ReaperSteps    == {"idle", "fetch", "record", "retry", "orphan", "adopt", "age",
                   "bury", "corrupt", "verify", "complete", "stamp", "write",
                   "fail", "settle"}

ExecIds == 1..Len(execs)
Live(e) == execs[e].stage \notin Ended
Listed  == {e \in ExecIds : execs[e].stage # "hidden"}

\* find_execution_for_job: the newest of a set of executions, 0 when there is none.
Newest(S) ==
  LET last == {e \in S : \A f \in S : f <= e}
  IN IF last = {} THEN 0 ELSE CHOOSE e \in last : TRUE

-----------------------------------------------------------------------------
(* Transactions on the row.                                                *)

SetStatus(s) == job' = [job EXCEPT !.status = s]

\* record_execution_id: fills an empty slot, never replaces an occupied one.
RecordId(e) ==
  job' = IF job.ext = 0 /\ job.status \in {"dispatching", "processing"}
         THEN [job EXCEPT !.ext = e] ELSE job

\* Mutated form of StampClock: every observation starts the clock again.
StampClockAgain(e) ==
  job' = IF job.ext = e /\ job.status \notin Terminal
         THEN [job EXCEPT !.clock = "fresh"] ELSE job

\* stamp_first_terminal: only on this execution, only once.
StampClock(e) ==
  job' = IF job.ext = e /\ job.clock = "null" /\ job.status \notin Terminal
         THEN [job EXCEPT !.clock = "fresh"] ELSE job

\* _stamp_failure_class_tx: an existing _failure object is left alone.
Stamp(p, c) == IF p.class = "absent" THEN [p EXCEPT !.class = c] ELSE p

\* _record_refund_debt: the complete plan, or an unresolved marker.
Owe(p) ==
  [class |-> IF p.class = "absent" THEN "blank" ELSE p.class,
   debt  |-> IF account.evidence THEN "plan" ELSE "unresolved"]

\* build_refund_plan can justify the amount, and the balance row exists.
Payable == account.evidence /\ account.target

\* Mutated form of Restore: every refund goes to the aggregate of the users row.
RestoreAggregate(f, subscribed) == [money.restored EXCEPT !["aggregate"] = @ + 1]

\* apply_refund_plan: each charged bucket, a lapsed monthly one excepted.
Restore(f, subscribed) ==
  [b \in Buckets |->
     money.restored[b] +
       (IF b \in Charged(f) /\ (b = "monthly" => subscribed) THEN 1 ELSE 0)]

Pay == money' = [restored |-> Restore(account.funding, account.subscribed),
                 ledger   |-> money.ledger + 1]

\* Mutated form of Settle: a refund that cannot be paid leaves no debt behind.
SettleOrForget(paid, owed) ==
  IF Payable THEN Pay /\ params' = paid ELSE UNCHANGED <<params, money>>

\* The refund of a job that fails: paid and ledgered, or, in the same transaction,
\* recorded as a debt. The arguments are what job_params holds afterwards.
Settle(paid, owed) ==
  IF Payable THEN Pay /\ params' = paid ELSE params' = owed /\ UNCHANGED money

\* terminalize_and_refund: the guarded transition alone decides who refunds.
TerminalizeAndRefund(paid, owed) ==
  IF job.status \in Terminal THEN UNCHANGED <<job, params, money>>
  ELSE SetStatus("failed") /\ Settle(paid, owed)

\* _mark_failed.
MarkFailed == TerminalizeAndRefund(params, Owe(params))

-----------------------------------------------------------------------------
(* The dispatcher.                                                         *)

WorkerGo(w, step, e) == worker' = [worker EXCEPT ![w] = [pc |-> step, exec |-> e]]
Idle(w) == worker[w].pc = "idle"

\* Mutated form of Claim: a blind UPDATE, without status = 'queued' in its WHERE.
ClaimBlindly(w) ==
  /\ Idle(w) /\ messages > 0
  /\ job.ext = 0
  /\ job' = [job EXCEPT !.status = "dispatching", !.age = 0, !.mark = Len(execs)]
  /\ messages' = messages - 1
  /\ WorkerGo(w, "claimed", 0)
  /\ UNCHANGED <<params, money, account, execs, delivered, reaper, canceller>>

\* The atomic claim, queued -> dispatching, which also stamps dispatched_at.
Claim(w) ==
  /\ Idle(w) /\ messages > 0
  /\ job.status = "queued" /\ job.ext = 0
  /\ job' = [job EXCEPT !.status = "dispatching", !.age = 0, !.mark = Len(execs)]
  /\ messages' = messages - 1
  /\ WorkerGo(w, "claimed", 0)
  /\ UNCHANGED <<params, money, account, execs, delivered, reaper, canceller>>

\* A message for a row that is dispatched or terminal is acknowledged.
TurnAway(w) ==
  /\ Idle(w) /\ messages > 0
  /\ job.ext # 0 \/ job.status \notin {"queued", "dispatching"}
  /\ messages' = messages - 1
  /\ UNCHANGED <<job, params, money, account, execs, delivered, worker, reaper, canceller>>

\* A message for a row in the dispatch commit gap: the newest execution listed for
\* the job is taken, whether or not it was already handled; none is acknowledged.
RecoverGap(w) ==
  /\ Idle(w) /\ messages > 0
  /\ job.status = "dispatching" /\ job.ext = 0
  /\ messages' = messages - 1
  /\ IF Listed = {} THEN UNCHANGED worker ELSE WorkerGo(w, "recover", Newest(Listed))
  /\ UNCHANGED <<job, params, money, account, execs, delivered, reaper, canceller>>

\* A message that is deferred too often, poisoned, or meets a broken lease table.
GiveUp(w) ==
  /\ "giveUp" \in Faults
  /\ Idle(w) /\ messages > 0
  /\ messages' = messages - 1
  /\ MarkFailed
  /\ UNCHANGED <<account, execs, delivered, worker, reaper, canceller>>

StartExec(w) ==
  /\ worker[w].pc = "claimed" /\ Len(execs) < MaxStarts
  /\ execs' = Append(execs, [stage |-> "hidden", fate |-> "none"])
  /\ WorkerGo(w, "started", Len(execs) + 1)
  /\ UNCHANGED <<job, params, money, account, messages, delivered, reaper, canceller>>

\* trigger_container_job raises, before or after the submission.
StartRaises(w) ==
  /\ \/ "startFails" \in Faults /\ worker[w].pc = "claimed"
     \/ "replyLost" \in Faults /\ worker[w].pc = "started"
  /\ WorkerGo(w, "revert", 0)
  /\ UNCHANGED <<job, params, money, account, messages, execs, delivered, reaper, canceller>>

\* _revert_claim; the exception leaves the message to the host.
Revert(w) ==
  /\ worker[w].pc = "revert"
  /\ SetStatus(IF job.status = "dispatching" THEN "queued" ELSE job.status)
  /\ messages' = messages + 1
  /\ WorkerGo(w, "idle", 0)
  /\ UNCHANGED <<params, money, account, execs, delivered, reaper, canceller>>

\* The start call returns, however late, or the recovered execution is recorded.
Record(w) ==
  /\ worker[w].pc \in {"started", "recover"}
  /\ RecordId(worker[w].exec)
  /\ WorkerGo(w, "idle", 0)
  /\ UNCHANGED <<params, money, account, messages, execs, delivered, reaper, canceller>>

Crash(w) ==
  /\ "crash" \in Faults
  /\ ~Idle(w) /\ messages < MaxMessages
  /\ messages' = messages + 1
  /\ WorkerGo(w, "idle", 0)
  /\ UNCHANGED <<job, params, money, account, execs, delivered, reaper, canceller>>

Redeliver ==
  /\ "duplicate" \in Faults
  /\ messages < MaxMessages
  /\ messages' = messages + 1
  /\ UNCHANGED <<job, params, money, account, execs, delivered, worker, reaper, canceller>>

-----------------------------------------------------------------------------
(* The execution and its container (main.py).                              *)

Becomes(e, s) == execs' = [execs EXCEPT ![e].stage = s]
Fails(e, why) == execs' = [execs EXCEPT ![e] = [stage |-> "failed", fate |-> why]]

Appears(e) ==
  /\ execs[e].stage = "hidden" /\ Becomes(e, "pulling")
  /\ UNCHANGED <<job, params, money, account, messages, delivered, worker, reaper, canceller>>

\* BackoffLimitExceeded before the container starts, or a failed GPU preflight.
ProvisionFails(e) ==
  /\ execs[e].stage = "pulling"
  /\ \/ "provisionFails" \in Faults /\ Fails(e, "pre_container")
     \/ "probeFails" \in Faults /\ Fails(e, "probe")
  /\ UNCHANGED <<job, params, money, account, messages, delivered, worker, reaper, canceller>>

\* The container reads its row: a terminal one is a no-op success. Without its
\* JOB_ID it exits 1 at once; as a mere probe of the GPU it exits 0.
Boots(e) ==
  /\ execs[e].stage = "pulling"
  /\ \/ Becomes(e, IF job.status \in Terminal THEN "succeeded" ELSE "booted")
     \/ "preflightOnly" \in Faults /\ Becomes(e, "succeeded")
     \/ "envLost" \in Faults /\ Fails(e, "container")
  /\ UNCHANGED <<job, params, money, account, messages, delivered, worker, reaper, canceller>>

\* update_job_status, guarded on the row not being terminal.
Verdict(s) == SetStatus(IF job.status \in Terminal THEN job.status ELSE s)

Processing(e) ==
  /\ execs[e].stage = "booted"
  /\ Verdict("processing") /\ Becomes(e, "running")
  /\ UNCHANGED <<params, money, account, messages, delivered, worker, reaper, canceller>>

Delivers(e) ==
  /\ execs[e].stage = "running"
  /\ delivered' = TRUE /\ Becomes(e, "uploaded")
  /\ UNCHANGED <<job, params, money, account, messages, worker, reaper, canceller>>

\* Mutated form of Completes: the guard of the completion write is missing.
CompletesBlindly(e) ==
  /\ execs[e].stage = "uploaded"
  /\ SetStatus("completed") /\ Becomes(e, "succeeded")
  /\ UNCHANGED <<params, money, account, messages, delivered, worker, reaper, canceller>>

Completes(e) ==
  /\ execs[e].stage = "uploaded"
  /\ Verdict("completed") /\ Becomes(e, "succeeded")
  /\ UNCHANGED <<params, money, account, messages, delivered, worker, reaper, canceller>>

\* Inference raises: 'failed' is written, guarded, and the container refunds the
\* aggregate of the users row itself: no bucket, no member row, no ledger row, no debt.
ContainerFails(e) ==
  /\ "appFails" \in Faults
  /\ execs[e].stage \in {"booted", "running"}
  /\ Fails(e, "container")
  /\ Verdict("failed")
  /\ money' = IF job.status \in Terminal
                 \/ (account.funding # "organization" /\ ~account.target)
              THEN money ELSE [money EXCEPT !.restored["aggregate"] = @ + 1]
  /\ UNCHANGED <<params, account, messages, delivered, worker, reaper, canceller>>

\* The container ends without writing its verdict: it is killed, or every attempt
\* to write 'completed' fails and it exits 1.
Dies(e) ==
  /\ \/ "killed" \in Faults /\ execs[e].stage \in {"booted", "running", "uploaded"}
     \/ "verdictLost" \in Faults /\ execs[e].stage = "uploaded"
  /\ Fails(e, "container")
  /\ UNCHANGED <<job, params, money, account, messages, delivered, worker, reaper, canceller>>

-----------------------------------------------------------------------------
(* What the reaper can learn of an execution.                              *)

\* Log Analytics and the preflight blob: did it answer, the probe's exit, proof
\* that the container ran, BackoffLimitExceeded. Below the ingestion grace any
\* event may be missing; above it ContainerStarted has been ingested.
Observations(x, clock) ==
  {v \in [tel : BOOLEAN, probe : {"none", "zero", "infra"}, ran : BOOLEAN, backoff : BOOLEAN] :
     /\ v.tel \/ "noTelemetry" \in Faults
     /\ v.ran \/ v.backoff => v.tel
     /\ v.ran => x.fate \in {"probe", "container"}
     /\ (v.tel /\ x.fate \in {"probe", "container"} /\ clock \in {"graced", "expired"}) => v.ran
     /\ v.probe = "infra" => x.fate = "probe"
     /\ v.probe = "zero" => x.fate = "container"}

Decision(action, class) == [action |-> action, class |-> class]
Wait == Decision("wait", "absent")

\* Mutated form of Classify: a pre-container shape is retried without the grace.
ClassifyEagerly(stage, v, clock) ==
  IF v.probe = "infra" THEN Decision("refund", "infra")
  ELSE IF stage = "stopped" THEN Decision("refund", "operator_stopped")
  ELSE IF v.ran \/ v.probe # "none" THEN Decision("refund", "application")
  ELSE IF v.backoff THEN Decision("retry", "pre_container")
  ELSE Wait

\* classify_execution, for an execution the control plane calls failed or stopped.
Classify(stage, v, clock) ==
  IF v.probe = "infra" THEN Decision("refund", "infra")
  ELSE IF stage = "stopped" THEN Decision("refund", "operator_stopped")
  ELSE IF v.ran \/ v.probe # "none" THEN Decision("refund", "application")
  ELSE IF v.backoff
       THEN IF clock \in {"null", "fresh"} THEN Wait ELSE Decision("retry", "pre_container")
  ELSE IF clock \in {"fresh", "graced"} \/ (~v.tel /\ clock = "null") THEN Wait
  ELSE Decision("refund", "unclassified")

\* What may be decided of execution e. An unfinished execution can only be a startup
\* stall; when the control plane does not answer, nothing is known to be finished.
Decisions(e) ==
  LET x == execs[e]
      stalled == IF "stall" \in Faults /\ (x.stage = "pulling" \/ x.fate = "pre_container")
                 THEN {Decision("refund", "stalled")} ELSE {}
  IN IF x.stage \in {"failed", "stopped"}
     THEN {Classify(x.stage, v, job.clock) : v \in Observations(x, job.clock)}
            \cup (IF "apiFails" \in Faults THEN {Wait} \cup stalled ELSE {})
     ELSE IF x.stage = "succeeded" THEN {Decision("verify", "absent")}
     ELSE {Wait} \cup stalled

-----------------------------------------------------------------------------
(* The reaper.                                                             *)

At(r, step) == reaper[r].pc = step
Rest == [pc |-> "idle", exec |-> 0, cand |-> 0, class |-> "absent",
         seen |-> [class |-> "absent", debt |-> "none"]]
Doing(step, e) == [Rest EXCEPT !.pc = step, !.exec = e]
ReaperGo(r, next) == reaper' = [reaper EXCEPT ![r] = next]

\* One tick selects the row: stuck in 'processing', its execution already dead, or
\* stuck in 'dispatching' with or without an execution id. A row without one whose
\* execution is not listed either is passed over.
Sweep(r) ==
  LET stuck == job.status = "processing" /\ job.age = 3
      dead == /\ job.status \in {"processing", "dispatching"}
              /\ job.ext # 0 /\ execs[job.ext].stage \in {"failed", "stopped"}
      late == job.status = "dispatching" /\ job.age >= 1
      cand == Newest(Listed \ job.history)
  IN /\ At(r, "idle")
     /\ \/ /\ stuck \/ dead \/ (late /\ job.ext # 0)
           /\ ReaperGo(r, Doing("fetch", 0))
        \/ /\ late /\ job.ext = 0
           /\ job.corrupt \/ cand # 0
           /\ ReaperGo(r, IF job.corrupt THEN Doing("corrupt", 0) ELSE Doing("record", cand))
     /\ UNCHANGED <<job, params, money, account, messages, execs, delivered, worker, canceller>>

\* The execution the reaper found is recorded, under the same guard.
RecordFound(r) ==
  /\ At(r, "record")
  /\ RecordId(reaper[r].exec) /\ ReaperGo(r, Rest)
  /\ UNCHANGED <<params, money, account, messages, execs, delivered, worker, canceller>>

\* _fetch_execution_outcome and classify: the row is read again, the clock of a
\* finished execution is started. Without evidence the job is timed out.
Fetch(r) ==
  /\ At(r, "fetch")
  /\ \/ /\ job.ext = 0 \/ "apiFails" \in Faults
        /\ ReaperGo(r, [Doing("stamp", 0) EXCEPT !.class = "infra_timeout"])
        /\ UNCHANGED job
     \/ /\ job.ext # 0
        /\ \E d \in Decisions(job.ext) :
             ReaperGo(r, CASE d.action = "wait"   -> Rest
                           [] d.action = "retry"  -> Doing("retry", job.ext)
                           [] d.action = "verify" -> Doing("verify", 0)
                           [] d.action = "refund" -> [Doing("stamp", 0) EXCEPT !.class = d.class])
        /\ IF Live(job.ext) THEN UNCHANGED job ELSE StampClock(job.ext)
  /\ UNCHANGED <<params, money, account, messages, execs, delivered, worker, canceller>>

\* Mutated form of BudgetLeft: the failed execution itself is not counted.
BudgetLeftBefore(e) == Cardinality(job.history) < MaxExecutions

\* The budget counts every execution of the job, the failed one included.
BudgetLeft(e) == Cardinality(job.history \cup {e}) < MaxExecutions

\* The job of a dead provisioning attempt goes back to the queue: history, status,
\* execution id and clock in one statement, the message in the same transaction.
Requeue(e) ==
  /\ job' = [job EXCEPT !.status = "queued", !.ext = 0, !.clock = "null",
                        !.history = @ \cup {e}]
  /\ messages' = messages + 1
  /\ UNCHANGED <<params, money>>

\* The budget is spent: last execution recorded, job failed and refunded at once. The
\* debt is written before the class, which then finds a _failure object.
Exhaust(e) ==
  /\ job' = [job EXCEPT !.status = "failed", !.history = @ \cup {e}]
  /\ Settle(Stamp(params, "pre_container"), Stamp(Owe(params), "pre_container"))
  /\ UNCHANGED messages

\* _retry_provisioning_job. An execution that is no longer the row's, or was handled
\* before, is an orphan; an unreadable history fails the job without a class.
Retry(r) ==
  LET e == reaper[r].exec
      stale == job.ext # e \/ job.status \notin {"processing", "dispatching"}
  IN /\ At(r, "retry")
     /\ IF stale \/ job.corrupt \/ e \in job.history
        THEN /\ ReaperGo(r, IF stale \/ ~job.corrupt THEN Doing("orphan", e) ELSE Doing("fail", 0))
             /\ UNCHANGED <<job, params, money, messages>>
        ELSE /\ ReaperGo(r, Rest)
             /\ IF BudgetLeft(e) THEN Requeue(e) ELSE Exhaust(e)
     /\ UNCHANGED <<account, execs, delivered, worker, canceller>>

\* _reconcile_orphaned_execution reads the row and lists the executions that are
\* newer than this dispatch and not handled. A list that fails counts as empty.
Orphan(r) ==
  LET e == reaper[r].exec
      fresh == Newest({x \in Listed \ (job.history \cup {e}) : x > job.mark})
      next(cand) ==
        IF job.ext # e THEN Rest
        ELSE IF job.corrupt THEN Doing("corrupt", 0)
        ELSE IF job.status \in Terminal THEN Rest
        ELSE IF cand # 0 THEN [Doing("adopt", e) EXCEPT !.cand = cand]
        ELSE IF job.clock = "null" THEN Doing("age", e)
        ELSE IF job.clock = "expired" THEN Doing("bury", e)
        ELSE Rest
  IN /\ At(r, "orphan")
     /\ \/ ReaperGo(r, next(fresh))
        \/ "apiFails" \in Faults /\ ReaperGo(r, next(0))
     /\ UNCHANGED <<job, params, money, account, messages, execs, delivered, worker, canceller>>

\* adopt_execution: guarded on the stale id; the adopted attempt gets its own clock.
Adopt(r) ==
  /\ At(r, "adopt")
  /\ job' = IF job.ext = reaper[r].exec /\ job.status \notin Terminal
            THEN [job EXCEPT !.ext = reaper[r].cand, !.clock = "null"] ELSE job
  /\ ReaperGo(r, Rest)
  /\ UNCHANGED <<params, money, account, messages, execs, delivered, worker, canceller>>

\* The orphan's clock is started, so that a later tick can age it.
AgeOrphan(r) ==
  /\ At(r, "age")
  /\ StampClock(reaper[r].exec) /\ ReaperGo(r, Rest)
  /\ UNCHANGED <<params, money, account, messages, execs, delivered, worker, canceller>>

\* terminalize_orphan: guarded on the stale id; class and debt in the transaction.
Bury(r) ==
  LET stamped == Stamp(params, "unclassified") IN
  /\ At(r, "bury")
  /\ IF job.ext = reaper[r].exec THEN TerminalizeAndRefund(stamped, Owe(stamped))
                                 ELSE UNCHANGED <<job, params, money>>
  /\ ReaperGo(r, Rest)
  /\ UNCHANGED <<account, messages, execs, delivered, worker, canceller>>

\* _reconcile_corrupt_history: observed up to its ceiling, then failed and refunded.
Corrupt(r) ==
  LET stamped == Stamp(params, "history_corrupt") IN
  /\ At(r, "corrupt")
  /\ IF job.age < 2 THEN UNCHANGED <<job, params, money>>
                    ELSE TerminalizeAndRefund(stamped, Owe(stamped))
  /\ ReaperGo(r, Rest)
  /\ UNCHANGED <<account, messages, execs, delivered, worker, canceller>>

\* The control plane says 'succeeded': results decide between recovery and refund.
VerifyDelivery(r) ==
  /\ At(r, "verify")
  /\ \/ ReaperGo(r, IF delivered THEN Doing("complete", 0)
                    ELSE [Doing("stamp", 0) EXCEPT !.class = "delivery_missing"])
     \/ "apiFails" \in Faults /\ ReaperGo(r, Rest)
  /\ UNCHANGED <<job, params, money, account, messages, execs, delivered, worker, canceller>>

RecoverCompleted(r) ==
  /\ At(r, "complete")
  /\ Verdict("completed") /\ ReaperGo(r, Rest)
  /\ UNCHANGED <<params, money, account, messages, execs, delivered, worker, canceller>>

\* _stamp_failure_class reads job_params ...
ReadStamp(r) ==
  /\ At(r, "stamp")
  /\ ReaperGo(r, [reaper[r] EXCEPT !.pc = "write", !.seen = params])
  /\ UNCHANGED <<job, params, money, account, messages, execs, delivered, worker, canceller>>

\* ... and writes all of it back, with the class, in a transaction of its own.
WriteStamp(r) ==
  /\ At(r, "write")
  /\ params' = IF reaper[r].seen.class = "absent"
               THEN Stamp(reaper[r].seen, reaper[r].class) ELSE params
  /\ ReaperGo(r, Doing("fail", 0))
  /\ UNCHANGED <<job, money, account, messages, execs, delivered, worker, canceller>>

FailJob(r) ==
  /\ At(r, "fail")
  /\ MarkFailed /\ ReaperGo(r, Rest)
  /\ UNCHANGED <<account, messages, execs, delivered, worker, canceller>>

\* _compensate_pending_refunds reads the debt of a failed job ...
ReadDebt(r) ==
  /\ At(r, "idle")
  /\ job.status = "failed" /\ params.debt # "none"
  /\ ReaperGo(r, [Doing("settle", 0) EXCEPT !.seen = params])
  /\ UNCHANGED <<job, params, money, account, messages, execs, delivered, worker, canceller>>

\* Mutated form of PayDebt: the ledger is not asked whether the debt was settled.
PayDebtAgain(r) ==
  /\ At(r, "settle")
  /\ IF reaper[r].seen.debt = "plan" /\ account.target
     THEN Pay /\ params' = [params EXCEPT !.debt = "none"]
     ELSE UNCHANGED <<params, money>>
  /\ ReaperGo(r, Rest)
  /\ UNCHANGED <<job, account, messages, execs, delivered, worker, canceller>>

\* Mutated form of PayDebt: the marker of a settled debt is not cleared.
PayDebtUncleared(r) ==
  /\ At(r, "settle")
  /\ IF reaper[r].seen.debt = "plan" /\ params.debt # "none" /\ money.ledger = 0 /\ account.target
     THEN Pay ELSE UNCHANGED money
  /\ ReaperGo(r, Rest)
  /\ UNCHANGED <<job, params, account, messages, execs, delivered, worker, canceller>>

\* ... and, with the job's ledger rows locked, pays a plan the ledger does not hold
\* yet, or only clears the marker. A marker that is gone by then rolls it all back.
PayDebt(r) ==
  LET plan == reaper[r].seen.debt = "plan"
      cleared == params' = [params EXCEPT !.debt = "none"]
  IN /\ At(r, "settle")
     /\ IF plan /\ params.debt # "none" /\ money.ledger <= 1 /\ (money.ledger = 1 \/ account.target)
        THEN cleared /\ (IF money.ledger = 1 THEN UNCHANGED money ELSE Pay)
        ELSE UNCHANGED <<params, money>>
     /\ ReaperGo(r, Rest)
     /\ UNCHANGED <<job, account, messages, execs, delivered, worker, canceller>>

-----------------------------------------------------------------------------
(* Cancellation, administration, time and the world.                       *)

\* cancel_job and admin_cancel_job: read the row, stop the execution it names as far
\* as that works, fail and refund.
Cancel ==
  /\ "cancel" \in Faults
  /\ \/ /\ canceller.pc = "idle" /\ job.status \notin Terminal
        /\ canceller' = [pc |-> "stop", exec |-> job.ext]
        /\ UNCHANGED <<job, params, money, execs>>
     \/ /\ canceller.pc = "stop"
        /\ canceller' = [canceller EXCEPT !.pc = "fail"]
        /\ \/ UNCHANGED execs
           \/ canceller.exec # 0 /\ Live(canceller.exec) /\ Becomes(canceller.exec, "stopped")
        /\ UNCHANGED <<job, params, money>>
     \/ /\ canceller.pc = "fail"
        /\ canceller' = [pc |-> "done", exec |-> 0]
        /\ MarkFailed /\ UNCHANGED execs
  /\ UNCHANGED <<account, messages, delivered, worker, reaper>>

\* admin_retry_job: a failed job is queued again; nothing is charged, and the enqueue
\* call, its arguments swapped, raises and is only logged.
AdminRetry ==
  /\ "adminRetry" \in Faults
  /\ job.status = "failed"
  /\ job' = [job EXCEPT !.status = "queued", !.ext = 0]
  /\ UNCHANGED <<params, money, account, messages, execs, delivered, worker, reaper, canceller>>

\* Time since the first terminal observation, and since dispatched_at.
Tick ==
  /\ \/ job.clock = "fresh"  /\ job' = [job EXCEPT !.clock = "graced"]
     \/ job.clock = "graced" /\ job' = [job EXCEPT !.clock = "expired"]
     \/ job.age < 3 /\ job.status \in {"dispatching", "processing"}
        /\ job' = [job EXCEPT !.age = @ + 1]
  /\ UNCHANGED <<params, money, account, messages, execs, delivered, worker, reaper, canceller>>

CorruptHistory ==
  /\ "corruptHistory" \in Faults
  /\ ~job.corrupt /\ job' = [job EXCEPT !.corrupt = TRUE]
  /\ UNCHANGED <<params, money, account, messages, execs, delivered, worker, reaper, canceller>>

PayerChanges ==
  /\ \/ "targetMissing" \in Faults /\ account' = [account EXCEPT !.target = ~@]
     \/ "lapse" \in Faults /\ account' = [account EXCEPT !.subscribed = ~@]
  /\ UNCHANGED <<job, params, money, messages, execs, delivered, worker, reaper, canceller>>

-----------------------------------------------------------------------------
\* The job was submitted: its credits are reserved, its message is in the outbox.
Init ==
  /\ job = [status |-> "queued", ext |-> 0, history |-> {}, corrupt |-> FALSE,
            clock |-> "null", age |-> 0, mark |-> 0]
  /\ params = [class |-> "absent", debt |-> "none"]
  /\ money = [restored |-> [b \in Buckets |-> 0], ledger |-> 0]
  /\ account \in [funding : Fundings, target : {TRUE}, subscribed : {TRUE},
                  evidence : IF "badEvidence" \in Faults THEN BOOLEAN ELSE {TRUE}]
  /\ messages = 1 /\ execs = <<>> /\ delivered = FALSE
  /\ worker = [w \in Workers |-> [pc |-> "idle", exec |-> 0]]
  /\ reaper = [r \in Reapers |-> Rest]
  /\ canceller = [pc |-> "idle", exec |-> 0]

Dispatcher(w) ==
  \/ Claim(w) \/ TurnAway(w) \/ RecoverGap(w) \/ GiveUp(w)
  \/ StartExec(w) \/ StartRaises(w) \/ Revert(w) \/ Record(w)

Container(e) ==
  \/ Appears(e) \/ ProvisionFails(e) \/ Boots(e) \/ Processing(e)
  \/ Delivers(e) \/ Completes(e) \/ ContainerFails(e) \/ Dies(e)

Reap(r) ==
  \/ Sweep(r) \/ RecordFound(r) \/ Fetch(r) \/ Retry(r)
  \/ Orphan(r) \/ Adopt(r) \/ AgeOrphan(r) \/ Bury(r) \/ Corrupt(r)
  \/ VerifyDelivery(r) \/ RecoverCompleted(r)
  \/ ReadStamp(r) \/ WriteStamp(r) \/ FailJob(r) \/ ReadDebt(r) \/ PayDebt(r)

Next ==
  \/ \E w \in Workers : Dispatcher(w) \/ Crash(w)
  \/ \E e \in ExecIds : Container(e)
  \/ \E r \in Reapers : Reap(r)
  \/ Redeliver \/ Cancel \/ AdminRetry \/ Tick \/ CorruptHistory \/ PayerChanges

Spec == Init /\ [][Next]_vars

\* The host delivers messages, executions progress, timers fire and time passes.
Fairness ==
  /\ \A w \in Workers : WF_vars(Dispatcher(w))
  /\ WF_vars(\E e \in ExecIds : Container(e))
  /\ \A r \in Reapers : WF_vars(Reap(r))
  /\ WF_vars(Tick)

FairSpec == Spec /\ Fairness

-----------------------------------------------------------------------------
(* Properties.                                                             *)

\* Types of the row, the money, the executions and the actors.
TypeOK ==
  /\ job \in [status : Statuses, ext : Nat, history : SUBSET Nat, corrupt : BOOLEAN,
              clock : Clocks, age : Ages, mark : Nat]
  /\ params \in Params
  /\ money \in [restored : [Buckets -> Nat], ledger : Nat]
  /\ account \in [funding : FundingKinds, evidence : BOOLEAN, target : BOOLEAN,
                  subscribed : BOOLEAN]
  /\ messages \in Nat /\ delivered \in BOOLEAN
  /\ execs \in Seq([stage : Stages, fate : Fates])
  /\ worker \in [Workers -> [pc : WorkerSteps, exec : Nat]]
  /\ reaper \in [Reapers -> [pc : ReaperSteps, exec : Nat, cand : Nat,
                             class : Classes, seen : Params]]
  /\ canceller \in [pc : CancellerSteps, exec : Nat]

\* The one balance whose restoration says that the job was refunded.
Primary == IF account.funding = "organization" THEN "member" ELSE "aggregate"

\* "Exactly once": however many actors fail the job, compensate it or finish it late,
\* no balance is restored twice, no second ledger row is written, and what was paid
\* is not owed as well.
RefundOnce ==
  /\ money.ledger <= 1 /\ \A b \in Buckets : money.restored[b] <= 1
  /\ params.debt # "none" => money.ledger = 0

\* A job that is in flight or delivered has been paid: nothing is refunded, ledgered
\* or owed. A late container must not turn a refunded job into a completed one.
PaidUnlessFailed ==
  job.status # "failed" =>
    /\ money.ledger = 0 /\ params.debt = "none"
    /\ \A b \in Buckets : money.restored[b] = 0

\* A failed job is settled: the credits came back, or the debt is written down.
FailedIsSettled ==
  job.status = "failed" => money.ledger > 0 \/ params.debt # "none"

\* How far the promise is: a job is paid until it ends.
Standing ==
  IF job.status = "completed" THEN "delivered"
  ELSE IF job.status = "failed" THEN "failed" ELSE "paid"

\* Where a debt gets lost: the container writes none down when the payer's row is gone,
\* and a stamp overwrites the one that somebody else recorded after the stamp read.
MayForget ==
  \/ {"appFails", "targetMissing"} \subseteq Faults
  \/ /\ {"badEvidence", "targetMissing"} \cap Faults # {}
     /\ {"giveUp", "cancel"} \cap Faults # {} \/ \E r, s \in Reapers : r # s

\* Whichever of its writers ends the job, compensates it or finishes it late, its row and
\* its balances keep what PaidJob promises: it is completed only with its results and never
\* after it failed, its credits come back only when it failed, in one step and once, and a
\* refund that is owed stays owed until it is paid.
Promised == INSTANCE PaidJob
  WITH Balances <- Buckets, Lossy <- MayForget, phase <- Standing, results <- delivered,
       back <- money.restored, owed <- params.debt # "none"
PromiseKept == Promised!Spec

\* The ledger and the balances agree: every restored balance is one that was charged,
\* and the charged one was restored as often as the ledger says.
LedgerMatchesBalances ==
  /\ money.restored[Primary] = money.ledger
  /\ \A b \in Buckets \ Charged(account.funding) : money.restored[b] = 0

\* The retry budget is a cost ceiling: a job never starts more A100 executions than
\* MAX_PROVISIONING_EXECUTIONS.
BudgetKept == Len(execs) <= MaxExecutions

\* A retry replaces a dead attempt: a job never has two live executions.
OneLiveExecution == Cardinality({e \in ExecIds : Live(e)}) <= 1

\* A run whose container started is never retried, however late its telemetry is.
RetriedNeverRan == \A e \in job.history : execs[e].fate = "pre_container"

\* Every job comes to an end.
Terminates == <>(job.status \in Terminal)

\* A debt whose amount is known is paid once the payer's row stays there, unless the
\* job is put back to work.
DebtIsPaid ==
  <>[](account.target /\ job.status = "failed") => <>[](params.debt # "plan")
=============================================================================

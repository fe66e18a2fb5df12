# BetterSnap AI: a verification of the backend and its containers

BetterSnap sells AI headshots. A customer buys credits (a pack, a monthly plan, or a seat in
an organization), uploads photos, has a LoRA adapter trained on them, and submits paid
generation jobs. A job travels from an HTTP submission through a SQL reservation, a queue, a
dispatcher that starts one A100 container, the container's own pipeline, and a set of timers
that clean up after everything that can go wrong, until it is `completed` or `failed` **and
its credits came back**. This directory models that system in TLA+, model-checks it with TLC
on small instances and proves its main safety properties with TLAPS for every value of the
constants.

Paths below are relative to `src/`; `backend/` abbreviates `Bettersnap-aI_Backend/`.

## 1. Inventory

| part | state it keeps | operations | hard behaviour |
|---|---|---|---|
| inference dispatcher: `process_inference_job`, `backend/shared/gpu_lease.py`, `queue_trigger.py`, `queue_client.py` | the single row of `GpuDispatchLease` (owner, expiry, `last_dispatch_at`), the queue's messages (payload with `defer_count`, dequeue count), `jobs.status`, `external_execution_id` | lease, count, claim, start, record, defer, revert, poison | several Function instances interleave at every transaction; a start blocks longer than the lease; the executions API lags; messages are duplicated, redelivered, deferred, poisoned |
| job lifecycle: reaper, `_reconcile_*`, `backend/shared/provisioning_retry.py`, `exec_reconcile.py`, `execution_evidence.py`, `startup_stall.py` | `jobs` row: status, execution id, `provisioning_execution_ids`, `first_terminal_observed_at`, `dispatched_at`; `job_params._failure` with the class and the refund debt | sweep, fetch evidence, classify, retry, exhaust, adopt, bury, verify delivery, stamp, fail and refund, compensate | late and out-of-order telemetry, several reapers, read-modify-write of `job_params`, a payer who disappears |
| container: `main.py`, `entrypoint.py`, `gpu_preflight.py` | the job's row and its blobs | processing, deliver, completed, failed (with a refund of its own) | it may die, start without its environment, or finish after the row was refunded |
| transactional outbox: `backend/shared/outbox.py` | `outbox` rows: attempts, delivered_at | add in the caller's transaction, fast path, timer | sent but not marked: a duplicate |
| reservation and ledger: `job_reservation.py`, `credit_ledger.py`, `org_credits.py` | balances of users, members, subscriptions; `credit_transactions` | reserve under an application lock | caps, concurrent submissions, buckets |
| training and fused training: `process_training_job`, `training_watcher`, `training_trigger.py`, `training_reservation.py`, `training_orphan.py` | `lora_trainings`, `users.lora_status`, the adapter blob | dispatch on the same lease, fuse a parked job, finish, release or fail the parked jobs, fused retry, exhaustion | two tables in one retry; a run that ends while jobs are submitted or while it is being started |
| subscriptions: `create_subscription`, `topup_credits`, `stripe_webhook` and its `_handle_*`, `failed_payment_grace_cleanup`, `admin_adjust_credits` | the plan, balances and checkout token of the `users` row; `processed_stripe_events`; Stripe's sessions and subscriptions | checkout, grant, renew, refuse, change, cancel, end, clean up, adjust | events are repeated, late and out of order, two events report one payment, handlers read before they write, a request dies between Stripe and its row |
| organizations, teams, invitations: `create_organization`, `create_invitations`, `accept_invitation`, `_handle_org_payment`, `org_credits.py` | `organizations`, `organization_members`, `invitations`, `organization_payments` | create, pay, count seats, invite, accept, spend, refund | counting and writing are not one step; two payments of one organization; a person joins while a job runs |
| rendering: `main.run_inference`, `runtime/` | candidates and images in the container's memory, results in blob storage, the row | load, generate, retry, select, enhance, gate, upload, complete | parts fail and the rest is shipped; retries reuse names; the row ends under the container |
| custody: uploads, crops, adapter and results; `retention_cleanup`, `delete_job`, `delete_user_model`, `run_training.py` | blobs, and the columns that say what is there | upload, crop, train, delete | storage has no transactions; deletion beside a purchase, a submission, a container or a second request |
| administration API | none of its own | cancel, retry, adjust, requeue, fail | puts finished jobs back to work |
| auth, db, keyvault, blob, mail; catalogue, crops; numeric code of `domain/`, `runtime/`, `evaluation/`; vendored trainer scripts; dashboard; migrations | none shared between actors | pure I/O, pure functions, image code, a web client | not modelled |

How they interact. A submission writes the row, the charge, the ledger entry and the
outbox message in one transaction. The dispatcher consumes messages; it and the container,
the reaper, the poison handler, cancellation and the compensator share nothing but the
`jobs` row, and every hand-over is a guarded `UPDATE ... WHERE status ...`. Azure is a
second source of truth (executions and their telemetry), read late and incompletely. Stripe is
a third: it knows what was paid and tells it by webhooks, which together with jobs, timers and
administrators write the balances of one `users` row. Storage is a fourth, written by uploads,
both containers and three kinds of deletion, and no transaction covers it.

What makes it correct: never more A100s than the cap; never two executions of a job; no
queued job without a message; every job ends; a failed job's credits come back exactly
once, or are written down as owed; nobody is refunded for a job that is not failed; a run
whose container started is never paid for twice by a retry; what a transaction owes the
queue is sent after it commits; a job parked behind a training is released or failed by the
end of that training, and generated by one container only; what is paid is granted once, and
soon; one subscription is charged at a time; bought credits outlive the plan; seats are held by
who earned them and pools keep their sums; what completes is fit to ship; links lead to images
and what is deleted stays deleted; nothing is deleted of a customer who has credits or a job.

## 2. Plan

1. `Dispatch`: the dispatcher in detail (done).
2. `JobLifecycle`: everything that happens to a row afterwards, and the money (done).
3. Proofs of both (type correctness, one start per job, refund safety, retry safety: done).
4. `AtLeastOnce` and `Outbox`: what the outbox promises, and the table, the fast path and
   the timer shown to implement it (done, proved).
5. `Training`: one customer's account: both reservations, the LoRA gate, training dispatch,
   fusing, the watcher, the two-table retry, the release of parked jobs (done, safety proved).
6. `Billing` and `Purchases`: one account and Stripe, and what a purchase promises (done,
   safety proved).
7. `Teams`: organizations, invitations and pooled credits (done, proved).
8. `Rendering` and `Custody`: the inference container's pipeline, and, on top of it, everything
   that writes or deletes photos, crops, adapter and results (done, proved).
9. `PaidJob`: what a customer is promised for the credits of a job, implemented by
   `JobLifecycle` (done, proved).
10. Left: submission by several customers, with the global cap and the per-job ceiling. Every
   invariant, every safety property of a step and every refinement that a run checks is proved.

`MCX` modules only add what TLC needs (symmetry, one constraint). Modules that carry theorems use no
recursive operator.

## 3. The modules

### Dispatch

A worker is one invocation slot of one Function instance (`host.json`: batchSize 1).
`pc[w]` names the next transaction or call; `hand[w]` is the message it holds.

| variable | code |
|---|---|
| `status`, `extId` | `jobs.status`, `jobs.external_execution_id` (`NameNone` is the text `'None'` that `str(None)` stores) |
| `leaseOwner`, `leaseLive`, `pending` | `owner_id`, `expires_at` in the future, `last_dispatch_at` within its grace window |
| `queue`, `copies` | the inference queue as a bag; copies made beyond the first (a bound) |
| `execs` | the executions, in start order, with what the API shows of them |

`Receive`/`ReceivePaused` are the entry of the handler; `Acquire`, `AcquireBusy` and
`AcquireError` its lease call; `ReadRow` and `Recover` the idempotency check; `CountActive`,
`CheckCap`, `Claim` the critical section; `Mark`, `Start*`, `Record`, `RevertClaim`,
`ClearPending` what follows; `Return` and `Raise` the `finally` clause with or without an
acknowledgement. `Crash` is a host that dies anywhere. The container is reduced to the
writes that matter to the dispatcher.

Assumptions, each where it is used: the start call resolves only once the execution is
listed (`StartResolves`; `clear_dispatch_pending` relies on it); the 30-minute grace is
longer than a submission takes to be listed (`GraceExpires`); the 180-second lease is longer
than the few SQL statements of the critical section unless `"stall"` is allowed
(`LeaseExpires`). A row deleted under a message is not modelled.

### JobLifecycle

One job with all its writers. `job` holds the row's columns, with the clocks as classes of
age (`Clocks`, `Ages`) because the code only compares them with thresholds; `job.mark` is
the number of executions when it was last dispatched, which is what `not_before =
dispatched_at` means for the orphan policy. `params` is `job_params._failure`; `money`
counts how often each balance was restored and how many `job_refund` rows exist; `account`
says how the job was paid, whether the balance row exists, whether the stored amounts can be
justified, and whether the monthly period still runs. `reaper[r]` carries what a tick has
read and not yet acted on: the execution, a candidate, a class, and the copy of
`job_params` it is going to write back.

A refund is an amount in the code; here every charged balance is charged one unit, so that
"restored" counts refunds. Buckets are not conflated: `Charged` says which balances a job of
each funding was paid from, `Restore` which of them a refund returns (a monthly bucket of a
lapsed period is not returned, as `apply_refund_plan` decides).

`Classify` is `classify_execution` for a finished execution, over `Observations`: what Log
Analytics and the preflight blob may show of an execution with a given true fate. Below the
ingestion grace any event may be missing; above it `ContainerStarted` has been ingested. That
is the one assumption about Azure that `RetriedNeverRan` needs, and it is the one the code
documents (`INGESTION_GRACE_S`). The selection of a row and the decision that follows are
merged in `Sweep`, because `_reap_one` reads the row again.

Bounds: `MaxStarts` executions, `MaxMessages` copies made by redelivery. The fault kinds
listed in each module (`FaultKinds`) are switched on per run.

### PaidJob

What the customer sees of all this, in five actions: a job is `paid`; results are produced; it is delivered,
once there are results, or it fails; when it fails its credits come back in the same step or are
written down as owed; what is owed is compensated later. Credits come back at most once, in one step, and
never of a job that is not failed (which balances they go to is `LedgerMatchesBalances`). `JobLifecycle` implements it (`PromiseKept`) under
this mapping: `phase` is the status of the row, with everything before an end counted as paid
(`Standing`); `results` is `delivered`; `back` is what refunds restored to each balance; `owed` is the
debt in `job_params`. Retries, orphans, clocks and telemetry are stutters.

The code does not always keep a debt, and `PaidJob` says so by a constant, `Lossy`: only then may a job fail
with neither a refund nor a debt, or a debt be forgotten. `MayForget` is its value, and says when, in terms of
the faults: the container fails jobs while payers' rows disappear (`main.py:605-619` records no debt), or
refunds may be unpayable while a second reaper, a cancellation or a dispatcher that gives up can
record a debt between a stamp's read and its write (`function_app.py:2504-2545`). In every other configuration
`PaidJob` is strict.

### AtLeastOnce and Outbox

`AtLeastOnce` is the promise: a message is sent only after its transaction committed, any
number of times, and is settled only after it was sent or abandoned once its attempts are
used up. `Outbox` is the code. `outbox[r]` is a row (`attempts`, and whether `delivered_at` is
set); `fast[r]` is what the process that inserted it does next (`outbox_try_send_now`); `batch`
and `step` are the timer's tick (`outbox_dispatch_pending`), which handles its rows in order;
`sent` are the rows a copy of whose message reached the queue. Sending and marking are
separate steps, because that is where a duplicate comes from; the fast path and the tick may
be at the same row. The mapping is `Abstract`: committed rows are all rows, settled ones are
marked, abandoned ones have used up their attempts. The selection of a tick is one query and
so one step.

### Training

One customer. A step is one transaction or one call to the queue or Azure.

| variable | code |
|---|---|
| `account` | the `users` row (`lora_status`, `retrain_count`, balance) and whether the adapter is in blob storage |
| `job`, `training` | `jobs.status`; the `lora_trainings` rows: status, execution, `fused_job_id`, charge, `provisioning_execution_ids` |
| `owed`, `queue`, `poisoned` | outbox rows still to be sent, messages of every job and run, training messages in the poison queue |
| `worker` | the invocations of `process_training_job`: lease held, to fuse, to start, to record, to un-claim, to revert |
| `execs`, `inferring` | training containers (fused ones have a second phase); jobs an inference container works on |
| `watch` | the run the watcher is at, the execution it read and what it concluded |
| `doomed` | parked jobs that the end of a run has read and is still to fail, one by one, after its commit |

`Submit` and `StartTraining` are the two reservations; `Deliver`, `DeliverTwice` the outbox as
`AtLeastOnce` has it; `Receive` to `Reject` the worker; `NeverRuns` to `Dies` the container;
`Look`, `Age`, `Conclude`, `Retry`, `NoRetry`, `Exhaust` the watcher. `Finish` and `Settle` are the one
transaction of `_finish_training` that ends a run, sets the model's status, refunds a paid
retrain and releases the parked jobs; `FailParked` is its loop after the commit, when there
is no model.

Left to other modules, or out: the lease and the GPU cap (`Dispatch`; here `Defer` may always
happen); what becomes of a queued job (`JobLifecycle`; here `Serve`, `Infer` and `Reap` take it to
an end); one balance instead of buckets; the global cap and the per-job ceiling, catalogue
visibility, a customer whose row is gone, and an execution history that cannot be parsed.
`Reap` requires that nobody works on the job: `REAPER_STUCK_MINUTES` is longer than any
container may run (`replicaTimeout`), and that is assumed. `Age` is not restricted that way: the age of a
run counts from its creation, queue waits and earlier attempts included, so it may strike
while the run is being started; a run that is still `queued` is not looked at.

### Purchases and Billing

`Purchases` is what a shop owes: a checkout that was offered lapses or is paid, and what was
paid is granted, once. `Billing` is one account, Stripe, and everything that writes the balances.

| variable | code |
|---|---|
| `user` | the `users` row: plan type, subscription, `monthly_credit_limit`, the total `credits_remaining` and its two parts, the monthly checkout token with its expiry (`fresh`), `subscription_cancel_at`, `payment_failed_at` |
| `session`, `stripe`, `changes` | Stripe's Checkout Sessions (a monthly one names its subscription) and subscriptions; a counter that numbers the events |
| `mail` | the events Stripe has posted: each may be delivered at any time, any number of times, in any order |
| `claims`, `grants` | `processed_stripe_events`; how often a session's purchase reached the balances |
| `doing` | what an invocation has read or reserved and is still to write, by kind |

`Register` to `Upgrade` are the endpoints; `Pay` to `SubscriptionEnds` Stripe and the bank; `FreesToken` to
`WriteChanged` the handlers of `stripe_webhook`; `GraceCleanup` the timer; `ReadBalance`/`Spend` the two
statements of a reservation and `ReadAdjust`/`Adjust` those of an administrator. A handler is
one transaction, and so one step, unless it reads the row without a lock and writes what
follows from it: then it is two (`ReadTopup`/`WriteTopup`, `ReadChanged`/`WriteChanged`). An endpoint that
calls Stripe is two as well, and may die in between (`CheckoutDies`, `CancelDies`).

Assumptions. A reserved or open monthly session is over before its token expires
(`TokenExpires`): 31 and 32 minutes, and Stripe expires sessions on time. That the *webhook* of a
paid session is handled within those 32 minutes too is not guaranteed by anything and is the
fault `"lateWebhook"`. A subscription's end and its failures are Stripe's to decide, so they may come
in any order the API allows; `MaxChanges` bounds them, `MaxBusy` how many invocations are in the
middle of their work, `MaxGift` what an administrator may give. Prices, currencies, mails and the
signature check are left out; the amounts are credits.

### Teams

Organizations, seats, invitations and the pool of a seat. `org` and `member` are the rows of
`organizations` and `organization_members` (`granted` and `left` are the member's credits), `link` the
invitations with `live` for "not past `expires_at`", `checkout` Stripe's sessions and `payments` the rows of
`organization_payments`, which are inserted together with their claim; `own` is the personal balance,
`job` the jobs with the pool that paid (`organization_id` of the row). `inviting`, `accepting` and `paying`
are what `create_invitations`, `accept_invitation` and `_handle_org_payment` have read and not yet written:
none of them locks what it counts. `raced` is history: in which ways the steps of an organization have overlapped
(two requests to invite, two acceptances, an acceptance and the expiry of its invitation); no action looks at it.
`Fail` is a refund by the backend, to the pool the row names;
`ContainerFails` is the container's own, which looks at `users` only.

### Rendering

The control flow of `main.run_inference` and the engines in `runtime/` between the row's `processing` and
its end. `run` says which stage is next and what was lost; `cand` the scored candidates of each
slot; `image` the images in memory by the *key* under which they are kept, because retried images
take the keys of earlier ones; `blobs` the results in storage; `row` the job's row, written only
while it is open. `Generate`, `Retry` and `Select` are generation, one round of the quality gate and the
choice of winners; `Enhance`, `FaceGate`, `Upload` and `Complete` what is done to the winners; `Raise`, `Fail`
and `Dies` a stage that raises, its handler, and a container that is killed. Images are reduced
to what the gates tell apart: slot, score, whether enhancement failed, whether a face is found.

### Custody

`Custody` extends `Rendering` with everything else that writes or deletes what a person leaves in
storage: `photos` and `crops` with their owner (the request whose photos they were cut from),
`request` the overlapping `start_training` requests, which write their crops one by one to the *same*
names, `train` their runs, `adapter`, `sweep` the hourly cleanup with the stage it is in, `deletion`, `reset`
and `clock` the second halves of `delete_job`, `delete_user_model` and `submit_job`. The cleanup holds
UPDLOCK on the users row while it deletes (`Locked`), and every writer of that row waits for it;
storage does not. `orphans` and `torn` are history: a deletion was refused or came while the
container worked, and a cleanup died over its work. `Flaky` lets every deletion fail.

Assumption: the person is a one-person account (membership of an organization is in `Teams`;
see section 5 for what retention does to members). Jobs that wait for an adapter are `Training`'s.

## 4. The runs

| run | instance | shows |
|---|---|---|
| `MCDispatchCap` | 2 jobs, 2 workers, cap 1, 1 deferral, 2 dequeues | the cap, the reservation, no running job failed, with starts, API calls, lease table and containers failing |
| `MCDispatchDup` | 1 job, 2 workers, 1 duplicate, crashes, stalls, pauses, guessed names | one start per job; a queued job is always carried by a message |
| `MCDispatchLive` | 1 job, 2 workers, crashes, lost replies, guessed names | the queue drains and the job leaves it (fair) |
| `MCJobLifecycleSettled` | all four fundings, 1 execution, 1 reaper | refund or debt for every failed job; ledger and balances agree |
| `MCJobLifecycleRace` | 2 reapers, 1 worker that crashes, budget 2, up to 3 starts | the promise (refinement of `PaidJob`), exactly-once money, the budget, one live execution, no retry of a run |
| `MCJobLifecycleLive` | 1 worker, 1 reaper, budget 2 | every job ends; every payable debt is paid (fair) |
| `MCOutbox` | 3 rows, 2 attempts, batches of 2, every fault | at-least-once delivery implemented, by which no row is marked unsent; every row sent or given up (fair) |
| `MCTrainingMoney` | 1 job, 2 runs, 1 credit, 2 starts, 13 faults | credits conserved, messages carried, one fused job per run |
| `MCTrainingGate` | 2 jobs, 1 run, 2 credits, 2 starts, 7 faults | parked jobs awaited, one generation, ready means an adapter; every job and run ends (fair) |
| `MCBilling` | 2 checkouts, plans of 1 and 2 credits, a pack of 1, jobs of 2, 1 change, 1 invocation at work, `"createFails"`, `"crash"` | one subscription; the split and bought credits survive; each purchase granted once (refinement of `Purchases`) and soon (fair) |
| `MCTeams` | 1 organization, 3 people, 2 addresses, 2 invitations, 2 sessions, 2 requests, 2 jobs, 2 seats | seats earned, pools conserved, no seat sold twice by a single race |
| `MCCustody` | 2 images, 1 retry within a budget of 3, 2 crops, 2 requests, 2 actors at work, failing deletions | what ships, what is linked, what stays deleted, who is spared, which crops a run sees |

Why these bounds are enough: two workers make every interleaving of a pair, and a third can
only repeat one of their roles, since the lease and the row are the only things shared; two
dequeues and one deferral reach both limits and the step before each; a budget of two has a
retry and an exhaustion, and a third permitted start shows what exceeding it would look like;
one duplicate is the smallest number that makes two messages for a job. A single execution
suffices for `Settled`, whose property relates the row to the money and not to attempts.
Three outbox rows are one more than a batch, so a row is left for the next tick; two attempts
are a retry and the last one. In `Training` a job and a run share one credit, so that only one
of them can be paid for; two runs follow each other, or wait for each other's link; two jobs
behind one run are the fused one and one that is only parked, and two starts under a budget
of two are a retry and an exhaustion. `DailyCap` 2 is reached by the two jobs.
In `Billing` two checkouts are one of each kind in turn, or two of one kind in a race, with the
second opened before or after the first is paid; the two plans give an upgrade and, by a late
event, a downgrade; a job that costs two takes from both balances; one change is a renewal, a failed
payment, a cancellation or an upgrade, and its return to normal is not counted. One invocation
at work still interleaves with everything that is one step, which is where the stale reads
are. In `Teams` three people are one more than the seats, two invitations and two requests are the
smallest race, and two jobs put one on each pool. In `Custody` two images are the smallest number
where one can fail and the other be delivered, or a retried image take the other's key; a budget
of three is one retry. Its constraint (`Apart`) keeps apart what does not meet: two requests to train,
or one and a job; no training while the inference container works (one GPU); and with the
quality gate on, nothing else mid-work and nothing bought since, because the gate only matters
to what ships. The largest run, `MCCustody`, has 3.3 million states and takes a minute and a half.
Deadlock checking is off everywhere because the system does stop: all jobs terminal, the
queue empty, all timers idle.

Fairness. `WF(Handler(w))`: the host keeps polling and an invocation runs to its end
(`functionTimeout`). `WF` of the poison handler, of the passing of the lease and the grace
period and of `Tick`: time. `WF(\E e : Container(e))`: an execution is provisioned, killed at
replicaTimeout or ends. `WF(Reap(r))`: the timer fires every two minutes. In `Outbox` and
`Training` strong fairness is used where a fault may take a step's place again and again:
`SF(TickSend)` and `SF(TickMark)` (the queue and the database do not fail a tick forever),
`SF(Deliver(i))` (the queue has room again and again), `SF(Work(w))` (a worker is not interrupted in
every attempt), `SF(Look(t))` and `SF(Age(t))` (a tick of the watcher goes through all runs in flight and
looks at the age first). `Age` is only fair where `"stuck"` is allowed: without it the age limit
is never reached. In `Billing` delivery of a paid session's event is strongly fair, because the
bound `MaxBusy`, which the server does not have, can disable it again and again (Stripe retries for
three days, and the queue of invocations drains), and the second half of what was begun is weakly
fair. No fault is forced to happen other than that one, which is a timer.

Properties that only hold without some fault are checked without it, on purpose: the faults
left out are exactly the divergences below.

## 5. Divergences between the code and what it says

Seen while modelling. Where a fault, a bound or a run is named, adding it to the run shows the
divergence; the others are read off the steps of the module.

Jobs, dispatch and training:

- the container says "reconcile, do NOT refund" of a verdict it could not write
  (`main.py:1120-1132`), and the reaper refunds the delivered job.
- a dispatcher that dies between claim and start leaves a `dispatching` row which the reaper passes
  over for ever (`function_app.py:3932-3938`) although the comment says it is reaped
  (`3850-3852`): `Terminates` in `MCJobLifecycleLive` with `"crash"`.
- a failed start parks the fused job again behind a run the watcher has timed out meanwhile
  (`function_app.py:3203-3226`), and nobody comes back for it: `ParkedIsAwaited` in
  `MCTrainingGate` with `"startFails"`.
- `"replyLost"` in `MCDispatchDup` breaks `NoDoubleStart`: a start that was submitted but whose name
  could neither be resolved nor listed is treated as "no A100 was started"
  (`backend/function_app.py:2371-2373`); a second A100 follows.
- `record_execution_id` claims to close the late-worker race by filling only empty slots
  (`provisioning_retry.py:940-950`), but a retry empties the slot, and a late worker then
  records the execution that was already handled.
- `"duplicate"` in `MCDispatchCap` breaks `ReservationOutlivesLease`: a turned-away duplicate
  clears the reservation of the start in flight (`function_app.py:2330-2331`), and breaks
  `NeverFailsARunningJob`: a duplicate out of deferrals fails the running job (`3005-3020`).
- `"crash"` in `MCDispatchCap` breaks `ReservationOutlivesLease` in the same way: the worker that turns
  away the redelivered message of a dispatcher that died after its start clears the reservation of another
  job's start in flight; with three jobs that is one A100 too many (`GpuCap`).
- the newest execution of *any* job is recorded as this job's when the poller of a start raises
  (`queue_trigger.py:49-58, 409-410`): `RowsNameTheirOwn` needs the hypothesis that `"lroFails"` does not occur. No run
  checks `OwnExecution`: with the fault it fails, and without it the recorded name is what the worker started or
  found in the list of its own job.
- `MaxActive = 2` in `MCDispatchCap` breaks `GpuCap`: one timestamp reserves one slot.
- The dispatcher's gap recovery lists executions without excluding the handled ones
  (`function_app.py:2320-2321`).
- `"adminRetry"` in `MCJobLifecycleRace` breaks `RefundOnce`: `admin_retry_job` charges nothing
  (`6222-6228`); it also cannot enqueue, its arguments being swapped.
- `"appFails"` in `MCJobLifecycleSettled` breaks `LedgerMatchesBalances` and `FailedIsSettled`:
  the container refunds the aggregate only and writes no ledger row (`main.py:605-619`).
- a second reaper, or `"giveUp"`, in `MCJobLifecycleSettled` breaks `FailedIsSettled`: a stamp read
  before a debt was recorded writes the debt away (`function_app.py:2511-2528`).
- `"replyLost"` in `MCJobLifecycleLive` breaks `Terminates`: when the reaper records the submitted
  execution before the worker reverts its claim, the row is `queued` with an execution id, and
  every message for it is turned away (`_revert_claim`, `2929-2940`).
- On exhaustion with an unpayable refund the debt is written before the class, and the stamp
  then finds a `_failure` object and writes nothing (`2884-2889`).
- `classify_execution` refunds as unclassified "after 1800s" on the first observation when
  telemetry answers and is inconclusive (`exec_reconcile.py:161-180`).
- `_find_current_execution` turns a failing list into "no newer execution" (`2843-2850`), so the
  orphan policy can refund before it could recover.
- `"sweepFails"` in `MCTrainingGate` breaks `ParkedIsAwaited`: a parked job that could not be failed
  is left to the reaper (`function_app.py:3638`), which does not look at `waiting_lora`.
- `"reset"` in `MCTrainingGate` breaks `ReadyHasAdapter`: a model deleted while its run is in flight is
  'ready' afterwards (`function_app.py:4222-4224` takes the container's success as proof of the
  adapter); and `OneGeneration`: a second run is started next to the first.
- `"replyLost"` in `MCTrainingGate` breaks `OneGeneration`: the un-claimed job is fused or released
  again while the container that was started generates it.
- two runs and `"stuck"` break `OneGeneration` too: a retried run ages out while a worker is between its
  claim and its fuse; an earlier adapter is found, so the job it was fused with is released and
  served, and `allocate_fused_job` takes it all the same: it reads the link and the job's status,
  not the run's (`shared/provisioning_retry.py:717-760`). `MCTrainingGate` has one run and does not see
  it; `OneGenerationAtATime` excludes it by name.
- After an exhaustion the other jobs parked behind the run stay parked with no run in flight
  (`FinishUnswept`; `function_app.py:3783-3794`); the properties exclude it by name (`Exhausted`).
- With `"crash"` a watcher that dies between `Exhaust` and `ConcludeExhausted` leaves the run to the
  age limit.
- A parked job is not counted under the daily cap (`job_reservation.py:132-135`) although the
  comment says "credits taken, cap counted" (`function_app.py:1615`).
- A committed row "can never be left with no queue message" (`function_app.py:4115`), but the timer
  skips a row after `max_attempts` failures (50).
- `outbox_try_send_now` "NEVER raises" (`outbox.py:66`), but the bookkeeping in it may.
- The comment over the reaper says every ten minutes (`3846`); the schedule says two (`3855`).

Billing:

- the docstring of the ledger says it "can never disagree" with the balances
  (`credit_ledger.py`); a first invoice that arrives after credits were spent fills the month again and is
  written to the ledger as a second grant: `_handle_invoice_paid` does not leave out
  `subscription_create` (`Invoice`).
- the debit of a job is computed from one read and applied by another statement
  (`job_reservation.py`, `ReadBalance`/`Spend`): a plan that ends in between leaves the monthly balance below
  zero, and the next plan's allowance then takes add-on credits. Hence `user.monthly >= 0` in
  `AddOnsSurvive`.
- `_handle_subscription_updated` and `admin_adjust_credits` write back balances they read before
  (`StaleSync`, `StaleAdjust` in `SplitKept`); stale changes are also applied out of order, the last one to
  arrive wins.
- `"slowMonthly"` with `"lateWebhook"` breaks `OneSubscription`: a bank debit settles, or a webhook arrives, after the
  32 minutes of the token, and a second subscription is charged.
- the end of a subscription that is handled before its checkout activates a dead subscription
  afterwards (`Ended` before `GrantMonthly`); `_handle_payment_failed` handled after the invoice was paid
  flags a paying account, whose month the grace cleanup then takes.
- a top-up is lost when the plan ends between `_handle_topup`'s read and its update, whose row count
  nobody looks at (`WriteTopup`); cancel and reactivate write the row whatever it says by then.
- a pack paid for while a plan is active waits for Stripe's retries, which end after three days.
- `GrantMonthly` clears neither `subscription_cancel_at` nor `payment_failed_at`;
  `find_checkout_session_by_token` looks at the hundred newest sessions only.

Teams:

- the docstring of `accept_invitation` says its recount covers two employees who accept the last
  seat at once (`function_app.py:6620-6627`): it does not, nothing locks what it counts. What keeps the seats in that race is
  that `create_invitations` counts the open invitations, so that two employees do not hold invitations for one seat.
  They do when two requests to invite have overlapped, each counting before the other's rows were there, or
  when an invitation expired after `accept_invitation` had found it open, and its seat was offered again. Then the
  two acceptances sell the seat twice: `Members(o) <= Seats` is violated in `MCTeams` along either way.
  `OversoldTakesTwoRaces` says that nothing less does it.
- a second paid session of one organization is acknowledged and never granted; two that overlap
  fill the administrator's seat twice (`PoolsConserved` leaves them out).
- the comment of `create_invitations` says it skips anyone already on the plan; the code skips who has an
  open invitation. Whoever holds the link may accept it.
- the container refunds `users.credits_remaining` for a job an organization paid for
  (`main.py:605-619`; `Diverted`).

Rendering and custody:

- retries of the quality gate use the ids `cand0`, `cand1`, ... again (`generation_sdxl.py:74-76`), and later winners
  overwrite: a slot may ship another slot's image, and "some image is enhanced" may fail, which is
  why `ShippedWell` asks for `run.round = 0`. A retry of the same slot also uses the same seed, and the
  manifest's seeds do not reproduce retried images. The default budget is the number of images, so
  by default nothing is retried; `QUALITY_GATE=1` raises unless `ARCFACE_ONNX_PATH` is set.
- a partial delivery may consist of the images without a face, or of those not enhanced.
- two overlapping requests to train write their crops to the same names, and the second purges
  the photos of the first, although the comment says the set "is already pinned to the explicit
  list" (`function_app.py:1104` ff.): `MixedByRivalsOnly` allows rivals. A request that is refused in the end has
  still replaced the crops, so that `_get_ref_faces` uses others than "the SAME crops the LoRA trained on".
  A smaller set leaves the rest of a larger one behind.
- retention looks at the personal balance only: a member of an organization with credits left
  and none of their own loses photos, adapter and results. It does not look at
  `lora_status = 'training'`, and may delete the adapter between its upload and the end of its run.
- it deletes results before it commits; when it dies in between, the row keeps its links
  (`torn`). Deletions that fail are swallowed, and the row expires all the same (`orphans`).
- deleting a queued job forfeits its credits; `job_result_url` does not look at `expired`; blobs written
  after `delete_job` stay; `_migrate_identity` moves rows to a new identity and leaves the blobs under
  the old one.

## 6. What is proved

| theorem | module | says |
|---|---|---|
| `TypeCorrect` | `Dispatch_proofs` | `Spec => []TypeOK` |
| `AtMostOneStart` | `Dispatch_proofs` | without `"replyLost"`, `Spec => []NoDoubleStart` |
| `RowsNameTheirOwn` | `Dispatch_proofs` | without `"lroFails"`, `Spec => []OwnExecution` |
| `WaitingIsCarried` | `Dispatch_proofs` | without `"replyLost"`, `Spec => []QueuedIsCarried` |
| `OnlyWaitingJobsAreFailed` | `Dispatch_proofs` | without `"duplicate"`, `"crash"`, `"replyLost"`, `Spec => NeverFailsARunningJob` |
| `OneGpuAtATime`, `HiddenIsReserved` | `Dispatch_proofs` | with `MaxActive = 1`, without `"duplicate"`, `"crash"`, `"replyLost"`, `"lroFails"`, `"stall"`, `GpuCap` and `ReservationOutlivesLease` always hold |
| `TypeCorrect` | `JobLifecycle_proofs` | `Spec => []TypeOK` |
| `RefundedAtMostOnce`, `PaidUntilFailed` | `JobLifecycle_proofs` | without `"adminRetry"`, `RefundOnce` and `PaidUnlessFailed` always hold |
| `CreditsAreHonoured` | `JobLifecycle_proofs` | without `"adminRetry"`, `JobLifecycle` implements `PaidJob` under the mapping of `Promised`, strictly where `MayForget` is false |
| `RetriesNeverRan` | `JobLifecycle_proofs` | `Spec => []RetriedNeverRan`, all faults allowed |
| `RetryBudgetIsKept`, `AtMostOneLiveExecution` | `JobLifecycle_proofs` | without `"replyLost"`, `"adminRetry"`, `BudgetKept` and `OneLiveExecution` always hold |
| `LedgerTellsTheBalance` | `JobLifecycle_proofs` | without `"appFails"`, `Spec => []LedgerMatchesBalances` |
| `FailedJobsAreSettled` | `JobLifecycle_proofs` | with one reaper, without `"appFails"`, `"giveUp"`, `"cancel"`, `Spec => []FailedIsSettled` |
| `PayableFailuresAreRefunded` | `JobLifecycle_proofs` | without `"appFails"`, `"badEvidence"`, `"targetMissing"`, `FailedIsSettled`, and a failed job's refund is in the ledger, always |
| `TypeCorrect` | `Outbox_proofs` | `Spec => []TypeOK` |
| `ImplementsAtLeastOnce` | `Outbox_proofs` | `Outbox` implements `AtLeastOnce` under the mapping of `Abstract` |
| `TypeCorrect` | `Training_proofs` | `Spec => []TypeOK` |
| `LinkIsPermanent` | `Training_proofs` | `Spec => FusedForGood` |
| `NothingQueuedIsLost` | `Training_proofs` | `Spec => []QueuedIsCarried`, all faults allowed |
| `ReadyMeansAdapter` | `Training_proofs` | without `"reset"` and `"retention"`, `Spec => []ReadyHasAdapter` |
| `NobodyParksForNothing` | `Training_proofs` | without `"startFails"`, `"badFiles"`, `"replyLost"`, `"sweepFails"`, `Spec => []ParkedIsAwaited` |
| `OneGenerationAtATime` | `Training_proofs` | without `"stuck"`, `"replyLost"`, `"reset"`, `"retention"`, `"giveUp"`, `"poison"`, `Spec => []OneGeneration` |
| `CreditsAreConserved` | `TrainingCredits_proofs` | `Spec => []CreditsConserved`, all faults allowed |
| `TypeCorrect` | `Billing_proofs` | `Spec => []TypeOK` |
| `PurchasesAreGrantedOnce` | `Billing_proofs` | `Billing` implements `Purchases` under the mapping `Phase` |
| `NeverTwoSubscriptions` | `Billing_proofs` | without `"lateWebhook"`, `Spec => []OneSubscription` |
| `TotalIsTheSum` | `Billing_proofs` | `Spec => SplitKept` |
| `BoughtCreditsStay` | `Billing_proofs` | `Spec => AddOnsSurvive` |
| `TypeCorrect` | `Teams_proofs` | `Spec => []TypeOK` |
| `SeatsEarned` | `Teams_proofs` | `Spec => []SeatsAreEarned` |
| `OversellingTakesTwoRaces` | `Teams_proofs` | `Spec => []OversoldTakesTwoRaces` |
| `PoolsAreConserved` | `Teams_proofs` | `Spec => []PoolsConserved` |
| `TypeCorrect` | `Custody_proofs` | `Spec => []TypeInv` |
| `RetentionSparesThePaying` | `Custody_proofs` | `Spec => []SparesThePaying` |
| `RunsMixRivalsOnly` | `Custody_proofs` | `Spec => []MixedByRivalsOnly` |
| `RowsAndResultsAgree` | `Custody_proofs` | `Spec => []StorageAgrees` |
| `OnlyFitWorkShips` | `Custody_proofs` | `Spec => ShippedWell` |

They hold for any numbers of jobs, runs, workers, reapers and rows (jobs and runs of one
account being finitely many), any balance, cap, budget, batch and bounds; they rest on the assumptions on
constants (`DispatchConstants`, `LifecycleConstants`, `OutboxConstants`, `TrainingConstants`,
`BillingConstants`, `TeamsConstants`, `RenderingConstants`, `CustodyConstants`; `EmptyHand` and
`SeparateQueues`, which say that no hand is a message and that no job is a run; `None` is no slot) and on the
modelling assumptions of section 3.

*One start per job.* `NoDoubleStart` is not inductive: a second start is made possible long
before it happens. The strengthening, `StartInv`, speaks of the workers too: a worker in its
`mark`, `start` or `revert` step holds a job that is not queued and has no execution, no two
workers are in these steps with the same job, and a job that has an execution is not queued.
Only the claim brings a worker to `mark`, and it needs a queued row; only a revert queues a
row again, and its job was started by nobody: which is what a lost reply breaks, hence the
hypothesis. Every step that queues no job, starts no execution and begins no start is
disposed of by one lemma about that shape (`Quiet`).

*Rows and messages.* `OwnedInv` says of `OwnExecution` what a worker is about to record: it names what it
started, or what it found in the list of the job's own. Only the fallback for a poller that raises
takes the newest execution of anybody, hence the hypothesis. For `QueuedIsCarried` a worker
that is about to acknowledge or to release (`clear`, `release`) no longer counts (`CarryInv`): it drops the
message, so it must have seen that the job does not wait. It has, because a row that names an
execution is not queued (`StartInv`, and `NamedInv`: a name has an execution); a start that lost
its reply would put the row back while nobody carries it.

*Who is failed.* Without redelivery the message of a job is a token (`TokenInv`): there is one copy of it, in the
queue or in one hand (`Alone`), and where it is tells the status of the job (`InStep`): it waits while
the message is in the queue or in a hand before the claim. Only a worker with the token in a step
before the claim fails a job, and a job that waits has no execution (`StartInv`). A duplicate is a second
token; a dispatcher that dies after the claim, or whose start loses its reply, leaves the token behind with a
job that waits no longer: the three hypotheses.

*The cap.* Nobody holds lease and reservation together for as long as an execution is invisible: the lease
covers the way from the count to the start (`LeaseHeld`, which is what `"stall"` breaks), the reservation the
way from before the start to the first listing (`Reserved`). So `CapInv` says that a worker which still
owns the lease when it clears a reservation clears its own (`OwnerKnows`), and that what a worker has counted
is still so when it claims and when it starts (`CountHolds`). It is proved on top of the token
argument: a worker with an old message could clear what is not its own. One timestamp reserves one slot,
hence `MaxActive = 1`, the default of `MAX_ACTIVE_GPU_JOBS` (`function_app.py:15`); TLC shows
each of the hypotheses to be needed (section 5).

*The refund.* `MoneyInv` is `PaidUnlessFailed`, `RefundOnce`, "a debt is unpaid" and
"no reaper carries a copy of `job_params` that could bring a settled debt back". The last two
are needed for the compensator: it pays on the strength of a marker read earlier, and the
stamp writes back a whole document read earlier. One lemma (`CalmStep`) disposes of every
step that touches neither money nor params and takes no job out of `failed`.

*The retry.* `HistoryInv` says that an execution is `failed` exactly when it has a fate, that
ids name executions, and that a reaper about to retry holds an execution that died before its
container. The classifier establishes the last one from the ingestion assumption; it
survives until the retry because fates never change.

*The budget.* `BudgetKept` bounds a number that no writer looks at; the reaper compares the length of the history
with the budget, and the worker looks at neither. `BudgetInv` ties them together: at most one execution is not in
the history (`OneOpen`), and while the job is queued, or claimed and not started, there is none and
one more is within the budget (`ClaimIsFree`). So a retry, which needs an execution that is not in the history,
moves the only one; two reapers that retry the same execution are told apart by the atomic update. From
this and `HistoryInv` (executions in the history are dead) follows `OneLiveExecution`. A lost reply puts a job
back to the queue with an execution outside the history, and so does an administrator.

*Settled.* A failed job without a refund has a debt recorded in `job_params`, and the stamp writes back the whole
document it read one step earlier. With one tick at a time (the trigger is a singleton) and nobody else who
fails jobs, the copy is still what is there (`WritesBackWhatIs`); a cancellation or a dispatcher
that gives up may record a debt in between, and the run shows the debt lost. Without unpayable refunds there
is no debt to lose, so that `PayableFailuresAreRefunded` needs neither one reaper nor calm: whoever fails the
job pays in the same transaction (`FailingPays`). Only the container does not, hence `"appFails"`.

*The promise.* Under the mapping of `Promised` a refund must start from balances nobody restored yet and a
compensation must find nothing paid: that is `MoneyInv`. A completion needs results, so `Shipped` says
that an execution past its upload, and a reaper about to complete a row, have them: the first delivered, the
second has listed them, and results stay. `Held` is for the strict case: as long as payers' rows stay, this
one is there; if besides the amounts can be justified nothing is ever owed; and with one reaper and nobody else who
records debts the copy that a stamp writes back is current. Each is needed for one step: the first for the
container's own refund, the other two for the stamp, which is mapped to a stutter, or to `Forget` where
`MayForget` allows it. Every writer that fails a row is mapped by one lemma about the refund (`SettleFails`),
every step that the customer does not see by another (`UnseenStep`). The run has `MayForget` true; the theorem
covers both cases.

*The outbox.* A row is marked by a sender that sent it some steps before, so the invariant has
to speak of senders: one that is about to mark a row has sent it (`MarkersSent`), and only the
process that inserted a row is at its fast path (`FastHasRow`). The tick's row is the least of
its batch, whose existence needs that the natural numbers are well ordered (`Smallest`). For
the refinement each step is mapped by what it does to the table: `Accept` to `Deliver`, `Mark` to
`Settle` (this is where `MarkersSent` is needed), the last failed attempt to `Abandon`, a
commit to `Commit`, everything else to a stutter.

*The account.* Types need to know a little more than types (`HasRun`): a worker that is not idle
and a watcher that has concluded something have a run, and a run that is retried has an
execution. `LinkIsPermanent` follows from the types alone, one action at a time. For the credits,
the sum of `CreditsConserved` is not inductive: the step that fails a job refunds a credit, and
must know that the job was charged. So the invariant speaks of every place that remembers a
job (parked and to be failed, being generated, held by a worker, linked to a run, named by an
execution) and says that such a job was submitted; that only a fused container has a second
phase; and that a run which was not started has cost nothing. Steps that move no credit are
disposed of by one lemma (`Calm`); what is left are the two reservations, the transition of a job to
`failed` (`FailJobSum`) and the end of a run (`SettleCredit`), each of which adds or removes one element
of one of the two sets that are counted.

*Nothing queued is lost.* A worker's hand is not enough for `QueuedIsCarried`: the worker may be past its
claim. `Carried` asks that it has *not* claimed the run, and, because a reverted run is re-sent only if it
has no execution, that a run which is queued or dispatching has none.

*Ready.* Before the first upload nobody can have concluded that there is an adapter: no execution is
past its training, no run is completed, the watcher has seen no success (`NoModel`). After it only a
deletion removes the adapter. The lookup on a failed run does not break this: an unanswered lookup
counts as no adapter, or, after an exhaustion, as one if an earlier run was completed.

*Parked jobs.* The gate parks while `lora_status = 'training'`, so `Awaited` says that some run is in flight
then. A claimed job is never parked again (`NoUnclaim`: that is where start calls, training files and
lost replies are excluded), and a run seen to have used up its retries stays the evidence of its
exhaustion (`WatchOK`), which is what the parked jobs left behind are excused by.

*One generation.* `OneEach` has four parts: at most one run is in flight, and only while the account is
'training' (`OneRun`); a run has one worker past its claim and one live container, which is its
execution or is still to be recorded, and the watcher concludes only from a dead one (`Attempts`);
worker, container and run agree on the fused job, which is no other run's (`Linkage`); and a fused
job of a run in flight is neither queued nor inferring (`Apart`). Each excluded fault ends or
restarts a run while something of it is alive.

*Purchases.* That a grant is the first one follows from the claim: `SoldInv` says that a session
whose purchase was granted is claimed (`Sold`), that an event of a payment is in the mail only of a
session that was paid, and that a claim or an add-on in progress is of such a session. Then every
step moves at most one session, and along `Purchases` (`PhaseStep`). Before the first login nothing
has happened (`NotYet`), which disposes of the handlers that need a row.

*One subscription.* `OneSubscription` counts sessions that may be paid and subscriptions that are
charged. The invariant ties each of them to the row: it is the account's fresh token or its
subscription (`Tenure`), and never both at once, so that there are not two. It holds while the
token of a paid session stays fresh until its event is handled; `"slowMonthly"` alone does no
harm, because a settling session keeps its token.

*The balances.* `TotalIsTheSum` needs one lemma per writer (`SplitStep`) and a lemma that says who moves
the balances at all (`OthersMoveNothing`); `BoughtCreditsStay` uses the same two.

*Seats and pools.* `SeatInv` adds to the types that an organization with seats was paid for
(`OrgsPaid`, `Checkouts`), that a link which was sent names its organization (`LinksSent`), and who sits where
(`Seated`). Two people cannot hold one link, because `accept_invitation` locks it. `PoolInv`
adds that the administrator sits in the organization (`AdminsSit`), that a job was paid by somebody
(`JobsPaid`), and the two sums (`Balances`, `Pools`); jobs are counted by finite sets, and each step adds or
removes one job of at most one set.

*Overselling.* `OversoldInv` has a bound for each way of losing a seat. Until requests overlap, or an invitation
expires while it is accepted, members, open invitations and the invitations that a request is about to send fit
into the seats together, and every acceptance is of an open one (`Covered`): accepting turns an invitation into a member
and leaves the sum. Until acceptances overlap, who is accepting has counted what is still so (`Roomy`). Either
bound keeps the seats; it takes both kinds of overlap to lose both. Steps of other organizations, and
steps that seat nobody, are disposed of by one lemma (`Quiet`).

*Retention.* `SparesThePaying` is inductive with the types: while the row is locked nobody writes it,
and only a submission, which waits for the lock, opens a job.

*Crops.* `MixInv` says what was written so far is the request's own or a rival's (`Own`), that whoever
can still write is a rival (`Watched`), and that nobody begins beside a run that has still to read, but a rival
(`Kept`): that is what `lora_status = 'training'` is for, and why a row reset under a run makes
everybody a rival.

*Rows and results.* The links of a completed job lead to what the container uploaded many steps before, so
`StorageInv` speaks of the upload: what was counted as delivered is there while the job may still be
completed (`Landed`), because nothing is emptied of a job that is open (`Closed`: a deletion in progress has
closed the row, and retention has listed a closed one, or holds the lock over a row that no submission can
open). For the other direction, once all is emptied and nothing was left, no container is at work, and none
can boot, as that takes an open row (`Gone`).

*What ships.* `RenderInv` follows the images through the container's memory. That every slot has a best candidate
is kept from append to append (`AppendHasFirst`), and the keys of retried slots stay within the first ones
(`KeyIsSlot`), so that every winner has an image. Until a slot is retried each winner is its slot's own image
(`Faithful`); then a stage that did not fail on all of them left one it did not fail on (`Enhanced`,
`Faced`, which counts).

Only model-checked: the liveness properties (TLAPS 1.4.5 does not prove `ENABLED` and fairness), which are
`QueueDrains`, `JobLeavesQueue`, `Terminates`, `DebtIsPaid`, `EveryRowIsSent`, `EveryJobEnds`, `EveryRunEnds` and
`PaidIsGranted`. `TypeOK` of a module
is not an invariant of any run: where it is stated it is proved.

## 7. What is not modelled, and why

The numeric code of image planning, engines and evaluation (what it decides is an input of
`Rendering`), the vendored trainer scripts, authentication and clients of Azure services (pure
I/O), the catalogue and the cropping of an image (constant data, pure functions), the dashboard (a
client), migrations (applied by hand), biometric consent (a switch that is off by default and
adds a guard to two endpoints), and endpoints that only read. Submission by several customers,
with the global cap and the per-job ceiling, is left for the plan of section 2.

Within the modelled parts: one account per model (`Teams` has several people, and no plans); amounts
are credits or units; the text of reasons, logs and mails is left out; `delete_job` is in `Custody` and not
in the money of `JobLifecycle`; administrator endpoints other than cancel, retry and adjust are not
actions; the orphan path of a training whose customer is gone and training histories that
cannot be parsed are not in `Training`.

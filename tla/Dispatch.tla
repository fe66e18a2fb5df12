------------------------------ MODULE Dispatch ------------------------------
(***************************************************************************)
(* The GPU dispatcher: process_inference_job, its Azure Storage queue, the *)
(* single-row SQL lease that serializes "count -> claim -> start" across   *)
(* scaled-out Function instances, the Container Apps executions it starts, *)
(* and the container's own status writes.                                  *)
(*                                                                         *)
(* A worker is one invocation slot of one Function instance (batchSize 1). *)
(* Every database transaction and every call to Azure is a step of its     *)
(* own, so that two workers interleave wherever the code lets them.        *)
(***************************************************************************)
EXTENDS Naturals, Sequences, FiniteSets

CONSTANTS
  Jobs,        \* rows of the jobs table
  Workers,     \* concurrent invocations of process_inference_job
  MaxActive,   \* MAX_ACTIVE_GPU_JOBS
  MaxDefers,   \* MAX_DISPATCH_DEFERS
  MaxDequeue,  \* host.json maxDequeueCount
  MaxCopies,   \* bound: extra copies of messages the outbox or a crash may make
  Faults,      \* which of FaultKinds the environment may commit
  NoWorker, NoMsg, \* SQL NULL owner; an empty hand
  NameNone     \* the string 'None' that str(None) stores as an execution id

FaultKinds == {
  "crash",       \* the host dies in the middle of an invocation
  "duplicate",   \* at-least-once delivery makes a second copy of a message
  "startFails",  \* begin_start raises before anything was submitted
  "replyLost",   \* begin_start was submitted, but naming the execution raises
  "lroFails",    \* poller.result() raises; the name is guessed from the list
  "apiFails",    \* the executions API raises inside the critical section
  "configError", \* the lease UPDATE raises (DispatchConfigError)
  "diesSilently",\* an execution ends without writing its job row
  "stall",       \* a worker stalls past the lease TTL before it has started
  "pause" }      \* the operator flips GPU_DISPATCH_ENABLED

ASSUME DispatchConstants ==
  /\ MaxActive \in Nat \ {0}
  /\ MaxDefers \in Nat /\ MaxDequeue \in Nat \ {0} /\ MaxCopies \in Nat
  /\ Faults \subseteq FaultKinds
  /\ NoWorker \notin Workers
  /\ NameNone \notin Nat

VARIABLES
  status,      \* jobs.status
  extId,       \* jobs.external_execution_id: 0 is NULL, n is the n-th execution
  leaseOwner,  \* GpuDispatchLease.owner_id
  leaseLive,   \* expires_at is still in the future
  pending,     \* last_dispatch_at is set and inside the grace window
  queue,       \* the inference queue, a bag: how many copies of each message
  copies,      \* duplicates made so far (bound)
  enabled,     \* GPU_DISPATCH_ENABLED
  pc, hand, found, count, \* a worker's step, message, execution id, API count
  execs        \* executions in start order

jobVars    == <<status, extId>>
leaseVars  == <<leaseOwner, leaseLive, pending>>
queueVars  == <<queue, copies>>
workerVars == <<pc, hand, found, count>>
vars == <<jobVars, leaseVars, queueVars, workerVars, enabled, execs>>

Terminal == {"completed", "failed"}
Statuses == {"queued", "dispatching", "processing"} \cup Terminal
Phases   == {"hidden", "listed", "running", "ended"}
Steps    == {"idle", "acquire", "read", "recover", "count", "cap", "claim",
             "mark", "start", "started", "record", "clear", "revert",
             "unmark", "release", "raise"}

\* A queue message: the payload's job and defer_count, and its dequeue count.
Message == [job : Jobs, defers : 0..MaxDefers, deq : 0..MaxDequeue]
Fresh(j) == [job |-> j, defers |-> 0, deq |-> 0]

\* An empty hand holds no message.
ASSUME EmptyHand == NoMsg \notin Message

ExecIds == 1..Len(execs)
Live(e) == execs[e].phase # "ended"

\* What the executions API lists as non-terminal: a just-started execution is
\* not listed yet.
ListedActive == {e \in ExecIds : execs[e].phase \in {"listed", "running"}}
Listed == {e \in ExecIds : execs[e].phase # "hidden"}

\* The most recently started of a set of executions; the given default if none.
Newest(S, default) ==
  LET last == {e \in S : \A f \in S : f <= e}
  IN IF last = {} THEN default ELSE CHOOSE e \in last : TRUE

-----------------------------------------------------------------------------
(* Pieces of the handlers.                                                 *)

Go(w, step) == pc' = [pc EXCEPT ![w] = step]
Put(m) == queue' = [queue EXCEPT ![m] = @ + 1]
Ack(w) == hand' = [hand EXCEPT ![w] = NoMsg]
JobOf(w) == hand[w].job

\* _mark_failed: guarded on the row not being terminal already.
MarkFailed(j) ==
  status' = [status EXCEPT ![j] = IF @ \in Terminal THEN @ ELSE "failed"]

\* record_execution_id: fills an empty slot, never replaces an occupied one.
RecordId(j, e) ==
  extId' = IF extId[j] = 0 /\ status[j] \in {"dispatching", "processing"}
           THEN [extId EXCEPT ![j] = e] ELSE extId

\* _defer_job, and the acknowledgement that follows its normal return.
DeferJob(w) ==
  /\ Ack(w)
  /\ IF hand[w].defers >= MaxDefers
     THEN MarkFailed(JobOf(w)) /\ UNCHANGED queue
     ELSE /\ Put([job |-> JobOf(w), defers |-> hand[w].defers + 1, deq |-> 0])
          /\ UNCHANGED status

-----------------------------------------------------------------------------
(* process_inference_job, one step per transaction or call.                *)

\* Mutated form of Receive: a delivery does not count against maxDequeueCount.
ReceiveUncounted(w) ==
  /\ pc[w] = "idle" /\ enabled
  /\ \E m \in Message :
       /\ queue[m] > 0 /\ m.deq < MaxDequeue
       /\ queue' = [queue EXCEPT ![m] = @ - 1]
       /\ hand' = [hand EXCEPT ![w] = m]
  /\ Go(w, "acquire")
  /\ UNCHANGED <<jobVars, leaseVars, copies, enabled, execs, found, count>>

\* The host hands over a message that has dequeues left.
Receive(w) ==
  /\ pc[w] = "idle" /\ enabled
  /\ \E m \in Message :
       /\ queue[m] > 0 /\ m.deq < MaxDequeue
       /\ queue' = [queue EXCEPT ![m] = @ - 1]
       /\ hand' = [hand EXCEPT ![w] = [m EXCEPT !.deq = @ + 1]]
  /\ Go(w, "acquire")
  /\ UNCHANGED <<jobVars, leaseVars, copies, enabled, execs, found, count>>

\* Kill switch: the message goes back with its defer_count untouched.
ReceivePaused(w) ==
  /\ pc[w] = "idle" /\ ~enabled
  /\ \E m \in Message :
       /\ queue[m] > 0 /\ m.deq < MaxDequeue
       /\ LET back == [m EXCEPT !.deq = 0]
          IN queue' = IF back = m THEN queue
                      ELSE [queue EXCEPT ![m] = @ - 1, ![back] = @ + 1]
  /\ UNCHANGED <<jobVars, leaseVars, copies, enabled, execs, workerVars>>

\* Mutated form of Acquire: an expired lease is not taken over.
AcquireFreeOnly(w) ==
  /\ pc[w] = "acquire"
  /\ leaseOwner = NoWorker
  /\ leaseOwner' = w /\ leaseLive' = TRUE
  /\ Go(w, "read")
  /\ UNCHANGED <<jobVars, pending, queueVars, enabled, execs, hand, found, count>>

\* acquire_dispatch_lease: a free or expired lease is taken ...
Acquire(w) ==
  /\ pc[w] = "acquire"
  /\ leaseOwner = NoWorker \/ ~leaseLive
  /\ leaseOwner' = w /\ leaseLive' = TRUE
  /\ Go(w, "read")
  /\ UNCHANGED <<jobVars, pending, queueVars, enabled, execs, hand, found, count>>

\* ... a held one defers the message ...
AcquireBusy(w) ==
  /\ pc[w] = "acquire"
  /\ leaseOwner # NoWorker /\ leaseLive
  /\ DeferJob(w) /\ Go(w, "idle")
  /\ UNCHANGED <<extId, leaseVars, copies, enabled, execs, found, count>>

\* ... and a broken lease table fails the job.
AcquireError(w) ==
  /\ "configError" \in Faults
  /\ pc[w] = "acquire"
  /\ MarkFailed(JobOf(w)) /\ Ack(w) /\ Go(w, "idle")
  /\ UNCHANGED <<extId, leaseVars, queueVars, enabled, execs, found, count>>

\* Dispatch idempotency: the row decides whether this message may start.
ReadRow(w) ==
  LET j == JobOf(w)
      gap == status[j] = "dispatching" /\ extId[j] = 0
      cand == Newest({e \in Listed : execs[e].job = j}, 0)
  IN /\ pc[w] = "read"
     /\ found' = [found EXCEPT ![w] = IF gap THEN cand ELSE 0]
     /\ Go(w, IF gap THEN IF cand # 0 THEN "recover" ELSE "release"
              ELSE IF extId[j] # 0 \/ status[j] # "queued" THEN "clear"
              ELSE "count")
     /\ UNCHANGED <<jobVars, leaseVars, queueVars, enabled, execs, hand, count>>

\* Record the execution recovered after a dispatch commit gap.
Recover(w) ==
  /\ pc[w] = "recover"
  /\ RecordId(JobOf(w), found[w]) /\ Go(w, "clear")
  /\ UNCHANGED <<status, leaseVars, queueVars, enabled, execs, hand, found, count>>

CountActive(w) ==
  /\ pc[w] = "count"
  /\ count' = [count EXCEPT ![w] = Cardinality(ListedActive)]
  /\ Go(w, "cap")
  /\ UNCHANGED <<jobVars, leaseVars, queueVars, enabled, execs, hand, found>>

\* Mutated form of AtCap: the reservation is not counted.
AtCapListedOnly(w) == count[w] >= MaxActive

\* The cap: listed executions, plus one for a dispatch still in its grace.
AtCap(w) == count[w] + (IF pending THEN 1 ELSE 0) >= MaxActive

CheckCap(w) ==
  /\ pc[w] = "cap"
  /\ IF AtCap(w)
     THEN DeferJob(w) /\ Go(w, "release")
     ELSE Go(w, "claim") /\ UNCHANGED <<status, queue, hand>>
  /\ UNCHANGED <<extId, leaseVars, copies, enabled, execs, found, count>>

\* Listing or reading executions raises: the finally releases, the host retries.
ApiRaises(w) ==
  /\ "apiFails" \in Faults
  /\ pc[w] \in {"read", "count"}
  /\ pc[w] = "read" => status[JobOf(w)] = "dispatching" /\ extId[JobOf(w)] = 0
  /\ Go(w, "raise")
  /\ UNCHANGED <<jobVars, leaseVars, queueVars, enabled, execs, hand, found, count>>

\* Mutated form of Claim: a blind UPDATE, without status = 'queued' in its WHERE.
ClaimBlindly(w) ==
  /\ pc[w] = "claim"
  /\ status' = [status EXCEPT ![JobOf(w)] = "dispatching"] /\ Go(w, "mark")
  /\ UNCHANGED <<extId, leaseVars, queueVars, enabled, execs, hand, found, count>>

\* The atomic claim, queued -> dispatching; losing it releases and returns.
Claim(w) ==
  LET j == JobOf(w) IN
  /\ pc[w] = "claim"
  /\ IF status[j] = "queued"
     THEN status' = [status EXCEPT ![j] = "dispatching"] /\ Go(w, "mark")
     ELSE UNCHANGED status /\ Go(w, "release")
  /\ UNCHANGED <<extId, leaseVars, queueVars, enabled, execs, hand, found, count>>

\* Mutated form of Mark: the dispatch leaves no reservation.
MarkNothing(w) ==
  /\ pc[w] = "mark"
  /\ Go(w, "start")
  /\ UNCHANGED <<jobVars, leaseVars, queueVars, enabled, execs, hand, found, count>>

\* mark_dispatched: a no-op once the lease has gone to another owner.
Mark(w) ==
  /\ pc[w] = "mark"
  /\ pending' = (pending \/ leaseOwner = w)
  /\ Go(w, "start")
  /\ UNCHANGED <<jobVars, leaseOwner, leaseLive, queueVars, enabled, execs,
                 hand, found, count>>

\* begin_start is submitted: from here on the execution exists.
Start(w) ==
  /\ pc[w] = "start"
  /\ execs' = Append(execs, [job |-> JobOf(w), phase |-> "hidden"])
  /\ found' = [found EXCEPT ![w] = Len(execs) + 1]
  /\ Go(w, "started")
  /\ UNCHANGED <<jobVars, leaseVars, queueVars, enabled, hand, count>>

StartFails(w) ==
  /\ "startFails" \in Faults
  /\ pc[w] = "start"
  /\ Go(w, "revert")
  /\ UNCHANGED <<jobVars, leaseVars, queueVars, enabled, execs, hand, found, count>>

\* The start LRO resolves and names the execution. Azure answers once the
\* execution is listed: clear_dispatch_pending relies on that ("the real
\* executions API count is now authoritative").
StartResolves(w) ==
  /\ pc[w] = "started"
  /\ execs[found[w]].phase # "hidden"
  /\ Go(w, "record")
  /\ UNCHANGED <<jobVars, leaseVars, queueVars, enabled, execs, hand, found, count>>

\* The LRO raises: the newest execution in the list is taken for ours.
StartGuessed(w) ==
  /\ "lroFails" \in Faults
  /\ pc[w] = "started"
  /\ found' = [found EXCEPT ![w] = Newest(Listed, NameNone)]
  /\ Go(w, "record")
  /\ UNCHANGED <<jobVars, leaseVars, queueVars, enabled, execs, hand, count>>

\* The LRO raises and so does the list: trigger_container_job raises although
\* the execution was submitted.
StartReplyLost(w) ==
  /\ "replyLost" \in Faults
  /\ pc[w] = "started"
  /\ found' = [found EXCEPT ![w] = 0]
  /\ Go(w, "revert")
  /\ UNCHANGED <<jobVars, leaseVars, queueVars, enabled, execs, hand, count>>

Record(w) ==
  /\ pc[w] = "record"
  /\ RecordId(JobOf(w), found[w]) /\ Go(w, "clear")
  /\ UNCHANGED <<status, leaseVars, queueVars, enabled, execs, hand, found, count>>

\* _revert_claim after a failed start.
RevertClaim(w) ==
  LET j == JobOf(w) IN
  /\ pc[w] = "revert"
  /\ status' = [status EXCEPT ![j] = IF @ = "dispatching" THEN "queued" ELSE @]
  /\ Go(w, "unmark")
  /\ UNCHANGED <<extId, leaseVars, queueVars, enabled, execs, hand, found, count>>

\* clear_dispatch_pending: guarded on the owner only.
ClearPending(w) ==
  /\ pc[w] \in {"clear", "unmark"}
  /\ pending' = (pending /\ leaseOwner # w)
  /\ Go(w, IF pc[w] = "clear" THEN "release" ELSE "raise")
  /\ UNCHANGED <<jobVars, leaseOwner, leaseLive, queueVars, enabled, execs,
                 hand, found, count>>

\* The finally clause: release_dispatch_lease, guarded on the owner.
ReleaseLease(w) ==
  /\ leaseOwner' = IF leaseOwner = w THEN NoWorker ELSE leaseOwner
  /\ leaseLive' = (leaseLive /\ leaseOwner # w)

\* Mutated form of Return: the message is not acknowledged.
ReturnUnacknowledged(w) ==
  /\ pc[w] = "release"
  /\ ReleaseLease(w) /\ Ack(w) /\ Go(w, "idle")
  /\ queue' = IF hand[w] = NoMsg THEN queue ELSE [queue EXCEPT ![hand[w]] = @ + 1]
  /\ found' = [found EXCEPT ![w] = 0] /\ count' = [count EXCEPT ![w] = 0]
  /\ UNCHANGED <<jobVars, pending, copies, enabled, execs>>

\* Normal return: the lease is released and the message acknowledged.
Return(w) ==
  /\ pc[w] = "release"
  /\ ReleaseLease(w) /\ Ack(w) /\ Go(w, "idle")
  /\ found' = [found EXCEPT ![w] = 0] /\ count' = [count EXCEPT ![w] = 0]
  /\ UNCHANGED <<jobVars, pending, queueVars, enabled, execs>>

\* Mutated form of Raise: the exception is swallowed and the message acknowledged.
RaiseSwallowed(w) ==
  /\ pc[w] = "raise"
  /\ ReleaseLease(w) /\ Ack(w) /\ Go(w, "idle")
  /\ found' = [found EXCEPT ![w] = 0] /\ count' = [count EXCEPT ![w] = 0]
  /\ UNCHANGED <<jobVars, pending, queueVars, enabled, execs>>

\* Exception: the lease is released and the host makes the message visible again.
Raise(w) ==
  /\ pc[w] = "raise"
  /\ ReleaseLease(w) /\ Put(hand[w]) /\ Ack(w) /\ Go(w, "idle")
  /\ found' = [found EXCEPT ![w] = 0] /\ count' = [count EXCEPT ![w] = 0]
  /\ UNCHANGED <<jobVars, pending, copies, enabled, execs>>

-----------------------------------------------------------------------------
(* The host, the queue, time and the operator.                             *)

\* Mutated form of Poison: the poison message is dropped, its job left alone.
PoisonDropped ==
  /\ \E m \in Message :
       /\ queue[m] > 0 /\ m.deq = MaxDequeue
       /\ queue' = [queue EXCEPT ![m] = @ - 1]
  /\ UNCHANGED <<jobVars, leaseVars, copies, enabled, execs, workerVars>>

\* A message out of dequeues goes to the poison queue, whose handler fails the job.
Poison ==
  /\ \E m \in Message :
       /\ queue[m] > 0 /\ m.deq = MaxDequeue
       /\ queue' = [queue EXCEPT ![m] = @ - 1]
       /\ MarkFailed(m.job)
  /\ UNCHANGED <<extId, leaseVars, copies, enabled, execs, workerVars>>

\* The host dies: the lease stays owned, the message becomes visible again.
Crash(w) ==
  /\ "crash" \in Faults
  /\ pc[w] # "idle"
  /\ queue' = IF hand[w] = NoMsg THEN queue ELSE [queue EXCEPT ![hand[w]] = @ + 1]
  /\ Ack(w) /\ Go(w, "idle")
  /\ found' = [found EXCEPT ![w] = 0] /\ count' = [count EXCEPT ![w] = 0]
  /\ UNCHANGED <<jobVars, leaseVars, copies, enabled, execs>>

\* A message is delivered again although a copy is queued or was handled: the
\* outbox sent it but did not record the send, or the host died between the
\* re-enqueue and the acknowledgement.
Duplicate(j) ==
  /\ "duplicate" \in Faults
  /\ copies < MaxCopies
  /\ copies' = copies + 1
  /\ Put(Fresh(j))
  /\ UNCHANGED <<jobVars, leaseVars, enabled, execs, workerVars>>

\* The lease TTL passes. Steps before the start call are short of the TTL
\* unless "stall" is allowed; the start call may well outlive it.
LeaseExpires ==
  /\ leaseOwner # NoWorker /\ leaseLive
  /\ \/ "stall" \in Faults
     \/ pc[leaseOwner] \notin {"read", "recover", "count", "cap", "claim",
                               "mark", "start"}
  /\ leaseLive' = FALSE
  /\ UNCHANGED <<jobVars, leaseOwner, pending, queueVars, enabled, execs, workerVars>>

\* The grace window passes. Thirty minutes is longer than a start call takes to
\* be submitted and listed, plus the moment between a worker's count and its
\* look at the reservation.
GraceExpires ==
  /\ pending
  /\ \A w \in Workers : pc[w] \notin {"start", "cap"}
  /\ \A e \in ExecIds : execs[e].phase # "hidden"
  /\ pending' = FALSE
  /\ UNCHANGED <<jobVars, leaseOwner, leaseLive, queueVars, enabled, execs, workerVars>>

ToggleDispatch ==
  /\ "pause" \in Faults
  /\ enabled' = ~enabled
  /\ UNCHANGED <<jobVars, leaseVars, queueVars, execs, workerVars>>

-----------------------------------------------------------------------------
(* Executions and the container (main.py).                                 *)

Phase(e, p) == execs' = [execs EXCEPT ![e].phase = p]

\* The API starts to list the execution.
Appears(e) ==
  /\ execs[e].phase = "hidden"
  /\ Phase(e, "listed")
  /\ UNCHANGED <<jobVars, leaseVars, queueVars, enabled, workerVars>>

\* The container reads its row: a terminal row is a no-op run, any other row is
\* set to 'processing'.
Boots(e) ==
  LET j == execs[e].job IN
  /\ execs[e].phase = "listed"
  /\ IF status[j] \in Terminal
     THEN Phase(e, "ended") /\ UNCHANGED status
     ELSE Phase(e, "running") /\ status' = [status EXCEPT ![j] = "processing"]
  /\ UNCHANGED <<extId, leaseVars, queueVars, enabled, workerVars>>

\* The run ends and writes its verdict, guarded on the row not being terminal.
Ends(e) ==
  LET j == execs[e].job IN
  /\ execs[e].phase = "running"
  /\ Phase(e, "ended")
  /\ \E verdict \in Terminal :
       status' = [status EXCEPT ![j] = IF @ \in Terminal THEN @ ELSE verdict]
  /\ UNCHANGED <<extId, leaseVars, queueVars, enabled, workerVars>>

\* Provisioning failed, the replica was killed, or the verdict could not be written.
Dies(e) ==
  /\ "diesSilently" \in Faults
  /\ execs[e].phase \in {"listed", "running"}
  /\ Phase(e, "ended")
  /\ UNCHANGED <<jobVars, leaseVars, queueVars, enabled, workerVars>>

-----------------------------------------------------------------------------
\* Every job was submitted: its row is 'queued' and its message was sent.
Init ==
  /\ status = [j \in Jobs |-> "queued"] /\ extId = [j \in Jobs |-> 0]
  /\ leaseOwner = NoWorker /\ leaseLive = FALSE /\ pending = FALSE
  /\ queue = [m \in Message |-> IF m = Fresh(m.job) THEN 1 ELSE 0]
  /\ copies = 0 /\ enabled = TRUE
  /\ pc = [w \in Workers |-> "idle"] /\ hand = [w \in Workers |-> NoMsg]
  /\ found = [w \in Workers |-> 0] /\ count = [w \in Workers |-> 0]
  /\ execs = <<>>

Handler(w) ==
  \/ Receive(w) \/ ReceivePaused(w)
  \/ Acquire(w) \/ AcquireBusy(w) \/ AcquireError(w)
  \/ ReadRow(w) \/ Recover(w) \/ CountActive(w) \/ CheckCap(w) \/ ApiRaises(w)
  \/ Claim(w) \/ Mark(w)
  \/ Start(w) \/ StartFails(w)
  \/ StartResolves(w) \/ StartGuessed(w) \/ StartReplyLost(w)
  \/ Record(w) \/ RevertClaim(w) \/ ClearPending(w)
  \/ Return(w) \/ Raise(w)

Container(e) == Appears(e) \/ Boots(e) \/ Ends(e) \/ Dies(e)

Next ==
  \/ \E w \in Workers : Handler(w) \/ Crash(w)
  \/ Poison
  \/ \E j \in Jobs : Duplicate(j)
  \/ LeaseExpires \/ GraceExpires \/ ToggleDispatch
  \/ \E e \in ExecIds : Container(e)

Spec == Init /\ [][Next]_vars

\* The host keeps polling, time passes, and executions make progress.
Fairness ==
  /\ \A w \in Workers : WF_vars(Handler(w))
  /\ WF_vars(Poison) /\ WF_vars(LeaseExpires) /\ WF_vars(GraceExpires)
  /\ WF_vars(\E e \in ExecIds : Container(e))

FairSpec == Spec /\ Fairness

-----------------------------------------------------------------------------
(* Properties.                                                             *)

\* Types of the rows, the lease, the queue, the workers and the executions.
TypeOK ==
  /\ status \in [Jobs -> Statuses]
  /\ extId \in [Jobs -> Nat \cup {NameNone}]
  /\ leaseOwner \in Workers \cup {NoWorker}
  /\ leaseLive \in BOOLEAN /\ pending \in BOOLEAN /\ enabled \in BOOLEAN
  /\ queue \in [Message -> Nat] /\ copies \in 0..MaxCopies
  /\ pc \in [Workers -> Steps]
  /\ hand \in [Workers -> Message \cup {NoMsg}]
  /\ found \in [Workers -> Nat \cup {NameNone}]
  /\ count \in [Workers -> Nat]
  /\ execs \in Seq([job : Jobs, phase : Phases])

\* The cost guarantee of COST_CONTROLS.md layer 3 and gpu_lease.py: the lease, the
\* count and the pending reservation together never let more executions live than
\* MAX_ACTIVE_GPU_JOBS, however slow a start is.
GpuCap == Cardinality({e \in ExecIds : Live(e)}) <= MaxActive

\* mark_dispatched's promise: as long as the API does not list a started
\* execution, the reservation that makes other instances count it is standing,
\* even after the ownership TTL.
ReservationOutlivesLease ==
  (\E e \in ExecIds : execs[e].phase = "hidden") => pending

\* Dispatch idempotency: no redelivery, duplicate, crash or start failure makes the
\* dispatcher start a second A100 for a job.
NoDoubleStart ==
  \A e, f \in ExecIds : execs[e].job = execs[f].job => e = f

\* The execution id persisted on a row names an execution of that very job.
OwnExecution ==
  \A j \in Jobs : extId[j] = 0 \/ (extId[j] \in ExecIds /\ execs[extId[j]].job = j)

\* Loss-safe requeue: a job that waits for a GPU is always carried by a message,
\* in the queue or in a worker's hand.
QueuedIsCarried ==
  \A j \in Jobs : status[j] = "queued" =>
    \/ \E m \in Message : m.job = j /\ queue[m] > 0
    \/ \E w \in Workers : hand[w] # NoMsg /\ hand[w].job = j

\* DISPATCH_TIMEOUT and the poison handler are for jobs that never got to run:
\* neither fails a job that has a live execution.
NeverFailsARunningJob ==
  [][\A j \in Jobs :
       (status[j] \notin Terminal /\ status'[j] = "failed" /\ execs' = execs)
         => ~ \E e \in ExecIds : execs[e].job = j /\ Live(e)]_vars

\* Deferral, redelivery and the poison queue are all bounded: the queue drains.
QueueDrains == <>[](\A m \in Message : queue[m] = 0)

\* A job does not wait for ever: it is dispatched for good, or it is failed.
JobLeavesQueue == \A j \in Jobs : <>[](status[j] # "queued")
=============================================================================
